---- MODULE Spec2Model ----
(***************************************************************************)
(* A model of dedupetool (octylFractal/dedupetool).                        *)
(*                                                                         *)
(* Part 1, the deduplication driver: dedupe_files of                       *)
(* src/ioctl_fideduperange.rs.  One call of dedupe_files is a state        *)
(* machine whose steps are the evaluation of the `while` condition, the    *)
(* opening of the destinations of one batch, and the FIDEDUPERANGE ioctl   *)
(* of that batch with the demultiplexing of its answers.  The kernel and   *)
(* the file system are the environment: which open fails, whether the      *)
(* ioctl fails, and what status the kernel writes for every destination    *)
(* are nondeterministic.                                                   *)
(*                                                                         *)
(* Part 2, the redundancy pruner: remove_already_shared_file_sections of   *)
(* src/bin/dedupetool.rs.                                                  *)
(*                                                                         *)
(* Paths, keys and file descriptors are naturals.  Byte offsets are the    *)
(* program's u64 values; every input is chosen so that no product or sum   *)
(* of the program leaves the range of integers TLC computes with           *)
(* (FitsTlc), which is far below 2^64, so no u64 operation wraps.          *)
(***************************************************************************)
EXTENDS Integers, Sequences, FiniteSets, TLC

(***************************************************************************)
(* Program constants.                                                      *)
(***************************************************************************)
IOCTL_DEDUPE_MAX_DESTS == 100

IOCTL_DEDUPE_MAX_BYTES == 16 * 1024 * 1024

\* linux/fs.h, through dedupetool-sys
FILE_DEDUPE_RANGE_SAME == 0

FILE_DEDUPE_RANGE_DIFFERS == 1

\* i32::MAX, the junk put in `status` before the ioctl
I32_MAX == 2147483647

\* u64::MIN, the junk put in `bytes_deduped` before the ioctl
U64_MIN == 0

(***************************************************************************)
(* Bounds of the model.                                                    *)
(***************************************************************************)
\* the longest source range spans this many 16 MiB windows
MaxWindows == 3

\* requests of up to this many destinations get every combination of
\* destination path, destination offset and kernel answer
MaxSmallDests == 2

\* a target given to the pruner has at most this many candidates, taken from
\* as many files
MaxCandidates == 3

\* the largest integer TLC computes with
TlcMaxInt == I32_MAX

VARIABLES
    \* ---- dedupe_files ----
    block_size,         \* metadata.st_blksize() of src
    src_range,          \* [start, end]: the Range<u64> argument
    request,            \* the HashMap<K, DedupeRequest> argument: key -> [dest, dest_offset]
    iter_order,         \* the order request.iter() yields the keys in (fixed for one map)
    offset,             \* the local `offset`
    batch,              \* index of the req_chunk being processed in this window
    aggregate_results,  \* key -> sequence of responses
    open_fds,           \* the batch's HashMap<PathBuf, File>: path -> fd
    fd_table,           \* the descriptors open in the process
    pc,                 \* "while" | "open" | "ioctl" | "ok" | "err" | "panic"
    result,             \* what the call returned
    ioctls,             \* history: every FIDEDUPERANGE ioctl issued, in order
    \* ---- remove_already_shared_file_sections ----
    target,             \* the FileSectionTarget: [length, offsets]
    extents_of,         \* what get_extents returns for each FileOffset of the target
    prune_pc,           \* "start" | "pruned" | "err" | "panic"
    physical_extent_buckets,  \* history: the HashMap built by the pruner
    original,           \* history: the target as it was given
    \* ---- process_dedupe / internal_process_dedupe, and the task around it ----
    skip_fiemap,        \* args.skip_fiemap
    dedupe_target,      \* the DeduplicationTarget argument
    files_state,        \* environment: what metadata / canonicalize answer for the Files
    proc_pc,            \* "start" | "prune" | "dispatch" | "returned" | "panic" | "recorded"
    proc_result,        \* the DedupeResult of process_dedupe
    effects,            \* history: the files opened as source and the dedupe_files calls
    tracker,            \* the Tracker: [max_bytes_saved, any_failed]
    \* ---- stdin_fdupes_targets ----
    stdin_input,        \* history: the lines of standard input
    stdin_lines,        \* Iter::iter: the lines not read yet
    dedup_lines,        \* Iter::dedup_lines
    emitted,            \* history: the Files targets the iterator returned
    stdin_pc,           \* "iter" | "end" | "panic"
    \* ---- main ----
    max_concurrency,    \* args.max_concurrency
    dry_run,            \* args.dry_run
    num_targets,        \* how many targets the target source yields
    main_pc,            \* "for" | "acquire" | "drain" | "exit" | "panic" | "idle"
    pulled,             \* how many targets the `for` loop has taken from the source
    permits,            \* permits available in concurrency_mutex
    task,               \* state of the task spawned for each target
    task_result,        \* the DedupeResult of each target's process_dedupe
    task_responses,     \* history: the map dedupe_files returned for each target
    tracker_owner,      \* the task holding the tracker's Mutex, 0 if none
    drained,            \* the futures dedupe_futures.next() has returned
    recorded,           \* history: how often each target's result was recorded
    printed,            \* history: the targets printed by a dry run
    exit_code,          \* the exit code of the process, -1 while it runs
    \* ---- get_extents ----
    fm_range,           \* [start, end]: the Range<u64> argument
    fm_offset,          \* the local `offset`, the cursor
    fm_extents,         \* the local `extents`
    fm_calls,           \* history: every FS_IOC_FIEMAP request with the kernel's reply
    fm_pc,              \* "while" | "returned" | "idle"
    fm_result,          \* what get_extents returned
    \* ---- ChunkManager ----
    cm_input,           \* history: the chunks given to push_path, path by path
    cm_chunk_data,      \* ChunkManager::chunk_data
    cm_ranges,          \* path_to_chunk_indices and chunk_index_to_path: [start, end) of each path
    cm_buckets,         \* hash_to_chunk_index: (hash, length) -> set of chunk indices
    cm_pc,              \* "push" | "scan" | "done" | "panic" | "idle"
    cm_index,           \* the path `index` of the outer loop
    cm_chunk,           \* the `chunk_index` of the inner loop
    cm_start_chunks,    \* the local `start_chunks`: path -> chunk index
    cm_groups,          \* `new_groups`, each target with the run it was made from
    \* ---- group_files: the chunking tasks ----
    wk_inodes,          \* environment: what the metadata of each inode says
    wk_entries,         \* history: the entries the walking task sent, 0 for an Err entry
    wk_next,            \* walk_recv: the position of the next entry to receive
    wk_worker,          \* each chunking task: [pc, entry, chunker]
    seen_inodes,        \* the HashSet behind the Mutex
    wk_filtered,        \* history: the entries that reached seen_inodes.insert
    wk_passed,          \* history: the entries for which insert returned true
    wk_chunked,         \* history: the entries chunk_file was called for
    \* ---- group_files: the average chunk size ----
    av_min,             \* config.min_size
    av_max,             \* config.max_size: <<>> for None, <<v>> for Some(v)
    av_pc,              \* "start" | "checked" | "computed" | "panic" | "idle"
    av_average,         \* the local `average`
    \* ---- chunk_file ----
    cf_min,             \* the argument `min`
    cf_stream,          \* environment: what the chunker yields for the file
    cf_pos,             \* the position of `iter` in the stream
    cf_chunks,          \* the local `chunks`
    cf_chunker,         \* *chunker is Some
    cf_pc,              \* "open" | "iter" | "returned" | "err" | "panic" | "idle"
    \* ---- group_files: the walking task, the chunking tasks and the manager loop ----
    gf_entries,         \* environment: what becomes of each entry the walk yields
    gf_walked,          \* how many entries the walking task has sent
    gf_walker,          \* the walking task: "walking" | "done"
    gf_walk_chan,       \* the entries in the walk channel
    gf_worker,          \* each chunking task: [pc, entry, chunker]
    gf_chunk_chan,      \* the (path, chunks) pairs in the chunk channel
    gf_pushed,          \* history: the entries whose pair push_path was called with
    gf_pc               \* "loop" | "await_walk" | "await_tasks" | "returned" | "panic" | "idle"

driver_vars == <<block_size, src_range, request, iter_order, offset, batch,
                 aggregate_results, open_fds, fd_table, pc, result, ioctls>>

pruner_vars == <<target, extents_of, prune_pc, physical_extent_buckets, original>>

process_vars == <<skip_fiemap, dedupe_target, files_state, proc_pc, proc_result, effects>>

stdin_vars == <<stdin_input, stdin_lines, dedup_lines, emitted, stdin_pc>>

main_vars == <<max_concurrency, dry_run, num_targets, main_pc, pulled, permits, task,
               task_result, task_responses, tracker_owner, drained, recorded, printed,
               exit_code>>

extents_vars == <<fm_range, fm_offset, fm_extents, fm_calls, fm_pc, fm_result>>

chunks_vars == <<cm_input, cm_chunk_data, cm_ranges, cm_buckets, cm_pc, cm_index, cm_chunk,
                 cm_start_chunks, cm_groups>>

walk_vars == <<wk_inodes, wk_entries, wk_next, wk_worker, seen_inodes, wk_filtered, wk_passed,
               wk_chunked>>

average_vars == <<av_min, av_max, av_pc, av_average>>

chunk_file_vars == <<cf_min, cf_stream, cf_pos, cf_chunks, cf_chunker, cf_pc>>

group_vars == <<gf_entries, gf_walked, gf_walker, gf_walk_chan, gf_worker, gf_chunk_chan,
                gf_pushed, gf_pc>>

\* the functions of the library
lib_vars == <<extents_vars, chunks_vars, walk_vars, average_vars, chunk_file_vars, group_vars>>

tool_vars == <<process_vars, tracker, stdin_vars, main_vars, lib_vars>>

\* main and what it calls
app_vars == <<driver_vars, pruner_vars, process_vars, tracker, stdin_vars, main_vars>>

vars == <<driver_vars, pruner_vars, tool_vars>>

\* what get_extents leaves alone
outside_extents == <<app_vars, chunks_vars, walk_vars, average_vars, chunk_file_vars,
                     group_vars>>

\* what the ChunkManager leaves alone
outside_chunks == <<app_vars, extents_vars, walk_vars, average_vars, chunk_file_vars,
                    group_vars>>

\* what the chunking tasks leave alone
outside_walk == <<app_vars, extents_vars, chunks_vars, average_vars, chunk_file_vars,
                  group_vars>>

\* what the choice of the average chunk size leaves alone
outside_average == <<app_vars, extents_vars, chunks_vars, walk_vars, chunk_file_vars,
                     group_vars>>

\* what the tasks of group_files leave alone
outside_group == <<app_vars, extents_vars, chunks_vars, walk_vars, average_vars,
                   chunk_file_vars>>

\* what chunk_file leaves alone
outside_chunk_file == <<app_vars, extents_vars, chunks_vars, walk_vars, average_vars,
                        group_vars>>

(***************************************************************************)
(* Helpers.                                                                *)
(***************************************************************************)
Min(a, b) == IF a <= b THEN a ELSE b

Max(a, b) == IF a >= b THEN a ELSE b

Range(s) == {s[i] : i \in DOMAIN s}

EmptyMap == <<>>

RECURSIVE SumSeq(_)
SumSeq(s) == IF s = <<>> THEN 0 ELSE Head(s) + SumSeq(Tail(s))

CeilDiv(a, b) == (a + b - 1) \div b

\* TRUE; TLC evaluates an operator's argument when it is first used, and
\* testing this first makes it compute the value v before it goes on
Computed(v) == v = v

(***************************************************************************)
(* dedupe_files: pure parts.                                               *)
(***************************************************************************)
\* align_down without the subtraction of the aligned part
align_down_unaligned(n, align) == n

\* fn align_down(n, align), as written:  n - ((n * align) / align)
align_down(n, align) == n - ((n * align) \div align)

\* let full_length = src_range.end - src_range.start;
full_length == src_range.end - src_range.start

\* request.iter().collect::<Vec<_>>(): the keys in the map's iteration order
request_vec == iter_order

\* the slices counted without the last, shorter one
NumChunks_Floor == Len(request_vec) \div IOCTL_DEDUPE_MAX_DESTS

\* number of slices .chunks(IOCTL_DEDUPE_MAX_DESTS) yields
NumChunks == CeilDiv(Len(request_vec), IOCTL_DEDUPE_MAX_DESTS)

\* the b-th slice of .chunks(IOCTL_DEDUPE_MAX_DESTS): all slices hold
\* IOCTL_DEDUPE_MAX_DESTS entries except possibly the last
req_chunk(b) ==
    SubSeq(request_vec,
           (b - 1) * IOCTL_DEDUPE_MAX_DESTS + 1,
           Min(b * IOCTL_DEDUPE_MAX_DESTS, Len(request_vec)))

\* open(2) returns the lowest descriptor that is not open
LowestFree(table) ==
    LET free == {f \in 0..Cardinality(table) : f \notin table}
    IN  CHOOSE f \in free : \A g \in free : f <= g

\* One step of collecting (r.dest.clone(), f) into the HashMap<PathBuf, File>:
\* the file is opened, then inserted; inserting under a path that is already
\* a key replaces the File stored there, which is dropped, i.e. closed.
OpenOne(acc, dest) ==
    LET fd == LowestFree(acc.table)
    IN  IF dest \in DOMAIN acc.map
        THEN [map   |-> [acc.map EXCEPT ![dest] = fd],
              table |-> (acc.table \cup {fd}) \ {acc.map[dest]}]
        ELSE [map   |-> (dest :> fd) @@ acc.map,
              table |-> acc.table \cup {fd}]

\* the map and the descriptor table after the destinations lo..hi of `chunk`
\* have been opened and collected, in order, starting from acc (the range is
\* split in two halves to keep the evaluation shallow)
RECURSIVE OpenRange(_, _, _, _)
OpenRange(chunk, lo, hi, acc) ==
    IF lo > hi \/ ~Computed(acc) THEN acc
    ELSE IF lo = hi THEN OpenOne(acc, request[chunk[lo]].dest)
    ELSE LET mid == (lo + hi) \div 2
         IN  OpenRange(chunk, mid + 1, hi, OpenRange(chunk, lo, mid, acc))

\* the map and the descriptor table after the first j destinations of
\* `chunk` have been opened and collected
OpenPrefix(chunk, j, table) ==
    OpenRange(chunk, 1, j, [map |-> EmptyMap, table |-> table])

\* let fd_map: HashMap<RawFd, K> = req_chunk.iter().map(|(k, r)|
\*     (open_fds[&r.dest].as_raw_fd(), K::clone(k))).collect();
\* a later pair replaces an earlier pair with the same descriptor
RECURSIVE FdMapRange(_, _, _, _)
FdMapRange(chunk, fds, lo, hi) ==
    IF lo > hi THEN EmptyMap
    ELSE IF lo = hi THEN (fds[request[chunk[lo]].dest] :> chunk[lo])
    ELSE LET mid == (lo + hi) \div 2
         IN  FdMapRange(chunk, fds, mid + 1, hi) @@ FdMapRange(chunk, fds, lo, mid)

FdMapPrefix(chunk, fds, j) == FdMapRange(chunk, fds, 1, j)

fd_map(chunk, fds) == FdMapPrefix(chunk, fds, Len(chunk))

\* DedupeRequestInternal for the window at `off`
request_internal(chunk, off) ==
    [src_offset |-> align_down(src_range.start + off, block_size),
     src_length |-> Min(src_range.end - (src_range.start + off), IOCTL_DEDUPE_MAX_BYTES),
     dest_count |-> Len(chunk)]

\* the DedupeRequestInternalInfo array handed to the kernel
infos_sent(chunk, fds, off) ==
    [i \in 1..Len(chunk) |->
        [dest_fd       |-> fds[request[chunk[i]].dest],
         dest_offset   |-> align_down(request[chunk[i]].dest_offset + off, block_size),
         bytes_deduped |-> U64_MIN,
         status        |-> I32_MAX]]

\* DedupeResponse
Error(errno) == [kind |-> "Error", errno |-> errno, bytes_deduped |-> 0]

RangeDiffers == [kind |-> "RangeDiffers", errno |-> 0, bytes_deduped |-> 0]

RangeSame(n) == [kind |-> "RangeSame", errno |-> 0, bytes_deduped |-> n]

\* whether `match info.status` reaches the `unknown => panic!` arm
IsUnknownStatus(status) ==
    /\ ~(status < 0)
    /\ status # FILE_DEDUPE_RANGE_DIFFERS
    /\ status # FILE_DEDUPE_RANGE_SAME

\* the match without the test of bytes_deduped in the SAME arm
Response_NoZeroTest(info) ==
    IF info.status < 0 THEN Error(-info.status)
    ELSE IF info.status = FILE_DEDUPE_RANGE_DIFFERS THEN RangeDiffers
    ELSE RangeSame(info.bytes_deduped)

\* let response = match info.status { ... } for a status that is not unknown
Response(info) ==
    IF info.status < 0 THEN Error(-info.status)
    ELSE IF info.status = FILE_DEDUPE_RANGE_DIFFERS THEN RangeDiffers
    ELSE IF info.bytes_deduped = 0 THEN RangeDiffers
    ELSE RangeSame(info.bytes_deduped)

\* aggregate_results.entry(key).or_insert_with(Vec::new).push(response)
PushResponse(agg, key, response) ==
    IF key \in DOMAIN agg
    THEN [agg EXCEPT ![key] = Append(@, response)]
    ELSE (key :> <<response>>) @@ agg

\* `for info in infos { ... }` over the infos lo..hi, none of which has an
\* unknown status
RECURSIVE DemuxRange(_, _, _, _, _)
DemuxRange(agg, infos, fdm, lo, hi) ==
    IF lo > hi \/ ~Computed(agg) THEN agg
    ELSE IF lo = hi
         THEN PushResponse(agg, fdm[infos[lo].dest_fd], Response(infos[lo]))
    ELSE LET mid == (lo + hi) \div 2
         IN  DemuxRange(DemuxRange(agg, infos, fdm, lo, mid), infos, fdm, mid + 1, hi)

Demux(agg, infos, fdm, j) == DemuxRange(agg, infos, fdm, 1, j)

\* the position of the first info whose status is unknown, 0 if there is none
FirstUnknown(infos) ==
    LET bad == {i \in 1..Len(infos) : IsUnknownStatus(infos[i].status)}
    IN  IF bad = {} THEN 0 ELSE CHOOSE i \in bad : \A j \in bad : i <= j

(***************************************************************************)
(* The environment of dedupe_files: the kernel and the file system.        *)
(***************************************************************************)
\* what the kernel may leave in (status, bytes_deduped) of one destination:
\* an errno, DIFFERS, SAME with the bytes of the window, SAME with no byte,
\* or nothing at all (the junk stays), or a status the program does not know
KernelOutcomes(src_length) ==
    {[status |-> -22, bytes_deduped |-> U64_MIN],
     [status |-> FILE_DEDUPE_RANGE_DIFFERS, bytes_deduped |-> 0],
     [status |-> FILE_DEDUPE_RANGE_SAME, bytes_deduped |-> src_length],
     [status |-> FILE_DEDUPE_RANGE_SAME, bytes_deduped |-> 0],
     [status |-> I32_MAX, bytes_deduped |-> U64_MIN],
     [status |-> 2, bytes_deduped |-> 0]}

\* the answers considered for a batch of n destinations: every combination
\* for a small batch; for a large one, one answer that holds every status the
\* program knows and one that leaves the last destination unfilled
KernelAnswers(n, src_length) ==
    IF n <= MaxSmallDests
    THEN [1..n -> KernelOutcomes(src_length)]
    ELSE {[i \in 1..n |->
              IF i = 1 THEN [status |-> -22, bytes_deduped |-> U64_MIN]
              ELSE IF i = 2 THEN [status |-> FILE_DEDUPE_RANGE_DIFFERS, bytes_deduped |-> 0]
              ELSE IF i = 3 THEN [status |-> FILE_DEDUPE_RANGE_SAME, bytes_deduped |-> 0]
              ELSE [status |-> FILE_DEDUPE_RANGE_SAME, bytes_deduped |-> src_length]],
          [i \in 1..n |->
              IF i = n THEN [status |-> I32_MAX, bytes_deduped |-> U64_MIN]
              ELSE [status |-> FILE_DEDUPE_RANGE_SAME, bytes_deduped |-> src_length]]}

\* the errno of a failing open(2) or ioctl(2): ENOENT, EACCES
OsErrnos == {2, 13}

\* the positions of a batch at which an open is let fail
FailPositions(n) == {1, n}

(***************************************************************************)
(* The calls of dedupe_files that are explored.                            *)
(***************************************************************************)
BlockSizes == {16, 4096}

SrcStarts == {0, 4100}

DestOffsets == {0, 4100}

SmallPaths == {1, 2}

\* every request of at most MaxSmallDests destinations
SmallRequests ==
    UNION {[1..n -> [dest : SmallPaths, dest_offset : DestOffsets]] : n \in 0..MaxSmallDests}

\* two destinations in different files, and two sections of one file
PairRequests ==
    {<<[dest |-> 1, dest_offset |-> 0], [dest |-> 2, dest_offset |-> 4100]>>,
     <<[dest |-> 1, dest_offset |-> 0], [dest |-> 1, dest_offset |-> 4100]>>}

SingleRequests == {<<[dest |-> 2, dest_offset |-> 4100]>>}

\* one full batch, one more than a full batch, two and a half batches
BigRequests ==
    {[k \in 1..n |-> [dest |-> k, dest_offset |-> 0]] :
        n \in {IOCTL_DEDUPE_MAX_DESTS,
               IOCTL_DEDUPE_MAX_DESTS + 1,
               2 * IOCTL_DEDUPE_MAX_DESTS + IOCTL_DEDUPE_MAX_DESTS \div 2}}

\* lengths inside one window: empty, short, exactly one window
OneWindowLengths == {0, 5000, IOCTL_DEDUPE_MAX_BYTES}

\* MaxWindows windows, the last one cut short
LongLength == MaxWindows * IOCTL_DEDUPE_MAX_BYTES - IOCTL_DEDUPE_MAX_BYTES \div 2

\* one window less
ShorterLength == LongLength - IOCTL_DEDUPE_MAX_BYTES

\* the offset of the last window of a range of length len
LastWindow(len) ==
    IF len = 0 THEN 0 ELSE ((len - 1) \div IOCTL_DEDUPE_MAX_BYTES) * IOCTL_DEDUPE_MAX_BYTES

\* no product the program computes for this call exceeds TlcMaxInt
FitsTlc(bs, start, len, req) ==
    LET tops == {start} \cup {req[k].dest_offset : k \in DOMAIN req}
    IN  \A n \in tops : n + LastWindow(len) <= TlcMaxInt \div bs

Calls ==
    {c \in [bs : BlockSizes, start : SrcStarts, len : OneWindowLengths, req : SmallRequests]
           \cup [bs : BlockSizes, start : {4100}, len : {ShorterLength}, req : PairRequests]
           \cup [bs : BlockSizes, start : {4100}, len : {LongLength}, req : SingleRequests]
           \cup [bs : BlockSizes, start : {4100}, len : {5000, LongLength}, req : BigRequests] :
        FitsTlc(c.bs, c.start, c.len, c.req)}

\* a HashMap yields its entries in an arbitrary order, the same on every
\* iteration of an unmodified map
IterOrders(req) ==
    LET n == Len(req)
    IN  {[i \in 1..n |-> i], [i \in 1..n |-> n + 1 - i]}

(***************************************************************************)
(* dedupe_files: the state machine.                                        *)
(***************************************************************************)
DriverInit ==
    \E c \in Calls :
        /\ block_size = c.bs
        /\ src_range = [start |-> c.start, end |-> c.start + c.len]
        /\ request = c.req
        /\ iter_order \in IterOrders(c.req)
        /\ offset = 0
        /\ batch = 1
        /\ aggregate_results = EmptyMap
        /\ open_fds = EmptyMap
        /\ fd_table = 0..3       \* stdin, stdout, stderr and src
        /\ pc = "while"
        /\ result = [kind |-> "none"]
        /\ ioctls = <<>>

\* while offset < full_length { for req_chunk in ... } ... Ok(aggregate_results)
WhileCheck ==
    /\ pc = "while"
    /\ IF offset < full_length
       THEN IF NumChunks = 0
            THEN \* the for loop has no iteration
                 /\ offset' = offset + IOCTL_DEDUPE_MAX_BYTES
                 /\ UNCHANGED <<pc, result>>
            ELSE /\ pc' = "open"
                 /\ UNCHANGED <<offset, result>>
       ELSE /\ pc' = "ok"
            /\ result' = [kind |-> "Ok", value |-> aggregate_results]
            /\ UNCHANGED offset
    /\ batch' = 1
    /\ UNCHANGED <<block_size, src_range, request, iter_order, aggregate_results,
                   open_fds, fd_table, ioctls, pruner_vars, tool_vars>>

\* the record kept of one ioctl
IoctlRecord(chunk, req_int, infos, outcome, pushed) ==
    [window     |-> offset,
     batch      |-> batch,
     src_offset |-> req_int.src_offset,
     src_length |-> req_int.src_length,
     dest_count |-> req_int.dest_count,
     keys       |-> chunk,
     infos      |-> infos,
     outcome    |-> outcome,
     pushed     |-> pushed]

\* the opens collected without `?`: the ioctl is issued for the destinations
\* opened before the failing one, and the error is returned after it
OpenDests_ErrorAfterIoctl ==
    /\ pc = "open"
    /\ LET chunk == req_chunk(batch)
       IN  \/ LET opened == OpenPrefix(chunk, Len(chunk), fd_table)
              IN  /\ open_fds' = opened.map
                  /\ fd_table' = opened.table
                  /\ pc' = "ioctl"
                  /\ UNCHANGED <<result, ioctls>>
           \/ \E j \in FailPositions(Len(chunk)), e \in OsErrnos :
                  LET part == SubSeq(chunk, 1, j - 1)
                      fds  == OpenPrefix(part, Len(part), fd_table).map
                  IN  /\ open_fds' = EmptyMap
                      /\ fd_table' = fd_table
                      /\ pc' = "err"
                      /\ result' = [kind |-> "Err", errno |-> e, from |-> "open"]
                      /\ ioctls' = Append(ioctls,
                                          IoctlRecord(part, request_internal(part, offset),
                                                      infos_sent(part, fds, offset), "ok", <<>>))
    /\ UNCHANGED <<block_size, src_range, request, iter_order, offset, batch,
                   aggregate_results, pruner_vars, tool_vars>>

\* let open_fds = req_chunk.iter().map(|(_, r)| open(&r.dest)...)
\*     .collect::<Result<HashMap<_, _>, _>>()?;
OpenDests ==
    /\ pc = "open"
    /\ LET chunk == req_chunk(batch)
       IN  \/ \* every open succeeds
              LET opened == OpenPrefix(chunk, Len(chunk), fd_table)
              IN  /\ open_fds' = opened.map
                  /\ fd_table' = opened.table
                  /\ pc' = "ioctl"
                  /\ UNCHANGED result
           \/ \* the j-th open fails: the files collected so far are dropped
              \E j \in FailPositions(Len(chunk)), e \in OsErrnos :
                  /\ open_fds' = EmptyMap
                  /\ fd_table' = fd_table
                  /\ pc' = "err"
                  /\ result' = [kind |-> "Err", errno |-> e, from |-> "open"]
    /\ UNCHANGED <<block_size, src_range, request, iter_order, offset, batch,
                   aggregate_results, ioctls, pruner_vars, tool_vars>>

\* the descriptors left open if the Files of the batch were kept
drop_open_fds_Leak(table, fds) == table

\* the descriptors left open when open_fds is dropped
drop_open_fds(table, fds) == table \ Range(fds)

\* from `let fd_map` to the end of the body of the for loop
CallIoctl ==
    /\ pc = "ioctl"
    /\ LET chunk   == req_chunk(batch)
           fdm     == fd_map(chunk, open_fds)
           req_int == request_internal(chunk, offset)
           sent    == infos_sent(chunk, open_fds, offset)
       IN  \/ \* call_ioctl_unsafe(...)? fails: nothing is copied back
              \E e \in OsErrnos :
                  /\ ioctls' = Append(ioctls, IoctlRecord(chunk, req_int, sent, "err", <<>>))
                  /\ pc' = "err"
                  /\ result' = [kind |-> "Err", errno |-> e, from |-> "ioctl"]
                  /\ UNCHANGED <<aggregate_results, offset, batch>>
           \/ \E answer \in KernelAnswers(Len(chunk), req_int.src_length) :
                  LET infos == [i \in 1..Len(chunk) |->
                                   [sent[i] EXCEPT !.status = answer[i].status,
                                                   !.bytes_deduped = answer[i].bytes_deduped]]
                      bad   == FirstUnknown(infos)
                      upto  == IF bad = 0 THEN Len(chunk) ELSE bad - 1
                      pushed == [i \in 1..upto |->
                                    [key |-> fdm[infos[i].dest_fd], response |-> Response(infos[i])]]
                  IN  IF bad # 0
                      THEN /\ ioctls' = Append(ioctls,
                                               IoctlRecord(chunk, req_int, infos, "panic", pushed))
                           /\ pc' = "panic"
                           /\ result' = [kind |-> "Panic"]
                           /\ aggregate_results' = Demux(aggregate_results, infos, fdm, upto)
                           /\ UNCHANGED <<offset, batch>>
                      ELSE /\ ioctls' = Append(ioctls,
                                               IoctlRecord(chunk, req_int, infos, "ok", pushed))
                           /\ aggregate_results' = Demux(aggregate_results, infos, fdm, upto)
                           /\ UNCHANGED result
                           /\ IF batch < NumChunks
                              THEN /\ batch' = batch + 1
                                   /\ pc' = "open"
                                   /\ UNCHANGED offset
                              ELSE \* offset += IOCTL_DEDUPE_MAX_BYTES;
                                   /\ batch' = 1
                                   /\ pc' = "while"
                                   /\ offset' = offset + IOCTL_DEDUPE_MAX_BYTES
    \* open_fds goes out of scope: every File of the batch is closed
    /\ open_fds' = EmptyMap
    /\ fd_table' = drop_open_fds(fd_table, open_fds)
    /\ UNCHANGED <<block_size, src_range, request, iter_order, pruner_vars, tool_vars>>

PrunerIdle ==
    /\ target = [length |-> 0, offsets |-> <<>>]
    /\ extents_of = EmptyMap
    /\ prune_pc = "idle"
    /\ physical_extent_buckets = EmptyMap
    /\ original = target

\* the Tracker of main, as Tracker::default() makes it
TrackerDefault == [max_bytes_saved |-> 0, any_failed |-> FALSE]

\* no process_dedupe call is modelled
ProcessIdle ==
    /\ skip_fiemap = FALSE
    /\ dedupe_target = [kind |-> "none"]
    /\ files_state = "none"
    /\ proc_pc = "idle"
    /\ proc_result = [kind |-> "none"]
    /\ effects = <<>>

\* no target is read from standard input
StdinIdle ==
    /\ stdin_input = <<>>
    /\ stdin_lines = <<>>
    /\ dedup_lines = <<>>
    /\ emitted = <<>>
    /\ stdin_pc = "idle"

\* main is not running
MainIdle ==
    /\ max_concurrency = 0
    /\ dry_run = FALSE
    /\ num_targets = 0
    /\ main_pc = "idle"
    /\ pulled = 0
    /\ permits = 0
    /\ task = <<>>
    /\ task_result = <<>>
    /\ task_responses = <<>>
    /\ tracker_owner = 0
    /\ drained = {}
    /\ recorded = <<>>
    /\ printed = <<>>
    /\ exit_code = -1

\* get_extents is not called
ExtentsIdle ==
    /\ fm_range = [start |-> 0, end |-> 0]
    /\ fm_offset = 0
    /\ fm_extents = <<>>
    /\ fm_calls = <<>>
    /\ fm_pc = "idle"
    /\ fm_result = [kind |-> "none"]

\* there is no ChunkManager
ChunksIdle ==
    /\ cm_input = <<>>
    /\ cm_chunk_data = <<>>
    /\ cm_ranges = <<>>
    /\ cm_buckets = <<>>
    /\ cm_pc = "idle"
    /\ cm_index = 0
    /\ cm_chunk = 0
    /\ cm_start_chunks = <<>>
    /\ cm_groups = <<>>

\* group_files is not called
WalkIdle ==
    /\ wk_inodes = <<>>
    /\ wk_entries = <<>>
    /\ wk_next = 0
    /\ wk_worker = <<>>
    /\ seen_inodes = {}
    /\ wk_filtered = {}
    /\ wk_passed = {}
    /\ wk_chunked = {}

\* no average chunk size is chosen
AverageIdle ==
    /\ av_min = 0
    /\ av_max = <<>>
    /\ av_pc = "idle"
    /\ av_average = 0

\* chunk_file is not called
ChunkFileIdle ==
    /\ cf_min = 0
    /\ cf_stream = [lengths |-> <<>>, fails |-> FALSE]
    /\ cf_pos = 0
    /\ cf_chunks = <<>>
    /\ cf_chunker = TRUE
    /\ cf_pc = "idle"

\* group_files does not run
GroupIdle ==
    /\ gf_entries = <<>>
    /\ gf_walked = 0
    /\ gf_walker = "done"
    /\ gf_walk_chan = <<>>
    /\ gf_worker = <<>>
    /\ gf_chunk_chan = <<>>
    /\ gf_pushed = <<>>
    /\ gf_pc = "idle"

LibIdle ==
    /\ ExtentsIdle
    /\ ChunksIdle
    /\ WalkIdle
    /\ AverageIdle
    /\ ChunkFileIdle
    /\ GroupIdle

ToolIdle ==
    /\ ProcessIdle
    /\ tracker = TrackerDefault
    /\ StdinIdle
    /\ MainIdle
    /\ LibIdle

DriverNext ==
    \/ WhileCheck
    \/ OpenDests
    \/ CallIoctl

Init == DriverInit /\ PrunerIdle /\ ToolIdle

Next == DriverNext

\* one call of dedupe_files
Spec == Init /\ [][Next]_vars

(***************************************************************************)
(* Properties of dedupe_files.                                             *)
(***************************************************************************)
\* the greatest multiple of align that is <= n
GreatestMultipleLeq(n, align) == (n \div align) * align

Calls_Issued == {ioctls[i] : i \in DOMAIN ioctls}

\* C1: for each window at offset w, src_offset is the greatest multiple of
\* the block size <= src_range.start + w, every dest_offset is the greatest
\* multiple of the block size <= its dest_offset + w, and src_length is
\* min(src_range.end - (src_range.start + w), 16 MiB).
C1_AlignedDownToBlock ==
    \A c \in Calls_Issued :
        /\ c.src_offset = GreatestMultipleLeq(src_range.start + c.window, block_size)
        /\ \A j \in 1..c.dest_count :
               c.infos[j].dest_offset =
                   GreatestMultipleLeq(request[c.keys[j]].dest_offset + c.window, block_size)
        /\ c.src_length =
               Min(src_range.end - (src_range.start + c.window), IOCTL_DEDUPE_MAX_BYTES)

\* C2: every FIDEDUPERANGE request has dest_count <= 100, src_length <=
\* 16 MiB, and src_offset and every dest_offset multiples of the block size.
C2_RequestWithinLimits ==
    \A c \in Calls_Issued :
        /\ c.dest_count <= 100
        /\ c.dest_count = Len(c.infos)
        /\ c.src_length <= 16 * 1024 * 1024
        /\ c.src_offset % block_size = 0
        /\ \A j \in 1..c.dest_count : c.infos[j].dest_offset % block_size = 0

\* a full batch over a full window of a source range that starts off a block
C2_Witness ==
    \E c \in Calls_Issued :
        /\ c.dest_count = IOCTL_DEDUPE_MAX_DESTS
        /\ c.src_length = IOCTL_DEDUPE_MAX_BYTES
        /\ (src_range.start + c.window) % block_size # 0
        /\ c.window > 0

\* C3: whenever dedupe_files returns Ok, the keys of the returned map are
\* the keys of the request map.  Stated here for the calls whose source range
\* is not empty (a call with an empty range issues no ioctl and returns an
\* empty map, whatever the request).
C3_SameKeys ==
    (pc = "ok" /\ full_length > 0) => DOMAIN result.value = DOMAIN request

\* C4: the src_offset of each later window's ioctl is strictly greater than
\* the src_offset of every earlier window's ioctl, and the windows together
\* cover the source range exactly once.
C4_WindowsInOrder ==
    /\ \A i, j \in DOMAIN ioctls :
           (i < j /\ ioctls[i].window < ioctls[j].window)
               => ioctls[i].src_offset < ioctls[j].src_offset
    /\ \A i, j \in DOMAIN ioctls : i < j => ioctls[i].window <= ioctls[j].window
    /\ (pc = "ok" /\ NumChunks > 0) =>
           LET first == SelectSeq(ioctls, LAMBDA c : c.batch = 1)
           IN  /\ \A i \in DOMAIN first :
                      first[i].window = (i - 1) * IOCTL_DEDUPE_MAX_BYTES
               /\ SumSeq([i \in DOMAIN first |-> first[i].src_length]) = full_length

\* the number of positions of call c that hold key k
Occurrences(c, k) == Cardinality({j \in 1..Len(c.keys) : c.keys[j] = k})

\* C5: for a source range of length L > 0 and n >= 1 destinations an
\* error-free call issues ceil(L / 16 MiB) * ceil(n / 100) ioctls; in every
\* window each destination appears in exactly one call; every batch has 100
\* destinations except possibly the last; the src_length of the windows
\* sum to L.
C5_CallCount ==
    (pc = "ok" /\ full_length > 0 /\ Len(request) >= 1) =>
        LET W == CeilDiv(full_length, 16 * 1024 * 1024)
            B == CeilDiv(Len(request), 100)
            first == SelectSeq(ioctls, LAMBDA c : c.batch = 1)
        IN  /\ Len(ioctls) = W * B
            /\ \A w \in 0..(W - 1) : \A k \in DOMAIN request :
                   LET holders == {i \in DOMAIN ioctls :
                                       /\ ioctls[i].window = w * 16 * 1024 * 1024
                                       /\ Occurrences(ioctls[i], k) > 0}
                   IN  /\ Cardinality(holders) = 1
                       /\ \A i \in holders : Occurrences(ioctls[i], k) = 1
            /\ \A c \in Calls_Issued : c.dest_count = 100 \/ c.batch = B
            /\ \A c \in Calls_Issued : c.dest_count >= 1 /\ c.batch <= B
            /\ SumSeq([i \in DOMAIN first |-> first[i].src_length]) = full_length

\* two and a half batches over several windows, returned Ok
C5_Witness ==
    /\ pc = "ok"
    /\ Len(request) = 2 * IOCTL_DEDUPE_MAX_DESTS + IOCTL_DEDUPE_MAX_DESTS \div 2
    /\ full_length > 2 * IOCTL_DEDUPE_MAX_BYTES
    /\ full_length % IOCTL_DEDUPE_MAX_BYTES # 0
    /\ Len(ioctls) = 3 * CeilDiv(full_length, IOCTL_DEDUPE_MAX_BYTES)

\* the info the kernel answered for key k in the window at offset w
InfoOfKey(k, w) ==
    LET i == CHOOSE i \in DOMAIN ioctls :
                 ioctls[i].window = w /\ Occurrences(ioctls[i], k) > 0
        j == CHOOSE j \in 1..Len(ioctls[i].keys) : ioctls[i].keys[j] = k
    IN  ioctls[i].infos[j]

\* C6: when dedupe_files returns Ok, the list of each key holds exactly one
\* response per window, in window order, each being the status the kernel
\* reported for that key's own destination in that window.
C6_OneResponsePerWindow ==
    (pc = "ok" /\ full_length > 0) =>
        LET W == CeilDiv(full_length, IOCTL_DEDUPE_MAX_BYTES)
        IN  \A k \in DOMAIN request :
                /\ k \in DOMAIN result.value
                /\ Len(result.value[k]) = W
                /\ \A w \in 1..W :
                       result.value[k][w] =
                           Response(InfoOfKey(k, (w - 1) * IOCTL_DEDUPE_MAX_BYTES))

\* the responses held by a map of response lists
ResponsesIn(agg) == UNION {Range(agg[k]) : k \in DOMAIN agg}

\* C7: negative status -> Error(-status); DIFFERS -> RangeDiffers; SAME with
\* bytes_deduped > 0 -> RangeSame{bytes_deduped}; SAME with bytes_deduped = 0
\* -> RangeDiffers; any other status is a panic.  No response is RangeSame
\* with bytes_deduped = 0.
C7_StatusMapping ==
    /\ \A c \in Calls_Issued :
           /\ c.outcome = "panic" <=>
                  (c.outcome # "err" /\ \E j \in 1..c.dest_count : c.infos[j].status >= 2)
           /\ c.outcome = "ok" => Len(c.pushed) = c.dest_count
           /\ \A j \in 1..Len(c.pushed) :
                  LET st == c.infos[j].status
                      bd == c.infos[j].bytes_deduped
                      r  == c.pushed[j].response
                  IN  /\ st < 0 => r.kind = "Error" /\ r.errno = 0 - st
                      /\ st = 1 => r.kind = "RangeDiffers"
                      /\ (st = 0 /\ bd > 0) => r.kind = "RangeSame" /\ r.bytes_deduped = bd
                      /\ (st = 0 /\ bd = 0) => r.kind = "RangeDiffers"
                      /\ st \in {0, 1} \/ st < 0
    /\ pc = "panic" <=> (ioctls # <<>> /\ ioctls[Len(ioctls)].outcome = "panic")
    /\ ResponsesIn(aggregate_results) =
           UNION {{c.pushed[j].response : j \in 1..Len(c.pushed)} : c \in Calls_Issued}
    /\ \A r \in ResponsesIn(aggregate_results) :
           ~(r.kind = "RangeSame" /\ r.bytes_deduped = 0)
    /\ pc = "ok" => result.value = aggregate_results

\* a call answered with an errno, with SAME and no byte, and with SAME and
\* bytes has returned Ok
C7_Witness ==
    /\ pc = "ok"
    /\ \E c \in Calls_Issued : \E j1, j2 \in 1..c.dest_count :
           /\ c.infos[j1].status = FILE_DEDUPE_RANGE_SAME
           /\ c.infos[j1].bytes_deduped = 0
           /\ c.infos[j2].status < 0
    /\ \E r \in ResponsesIn(result.value) : r.kind = "RangeSame"

C9_KernelErrorNotFatal ==
    /\ \A c \in Calls_Issued : \A j \in 1..c.dest_count :
           (c.outcome = "ok" /\ c.infos[j].status < 0) =>
               /\ Len(c.pushed) = c.dest_count
               /\ c.pushed[j].response = Error(0 - c.infos[j].status)
               /\ c.pushed[j].key = c.keys[j]
    /\ (ioctls # <<>> /\ ioctls[Len(ioctls)].outcome = "ok") =>
           /\ pc # "panic"
           /\ pc = "err" => result.from = "open"

(***************************************************************************)
(* Part 2: remove_already_shared_file_sections (src/bin/dedupetool.rs).    *)
(*                                                                         *)
(* A FileOffset is [file, offset]; an Extent is [logical_offset,           *)
(* physical_offset, length].  What FIEMAP reports for a section is the     *)
(* environment's choice, the same for every probe of the same section.     *)
(***************************************************************************)
TargetLength == 2 * 4096

PhysicalPlaces == {1048576, 2097152}

\* what get_extents may return for the range [o, o + TargetLength): nothing,
\* one extent at either place, or two extents, one at each place
ExtentListsAt(o) ==
    {<<>>}
    \cup {<<[logical_offset |-> o, physical_offset |-> p, length |-> TargetLength]>> :
             p \in PhysicalPlaces}
    \cup {<<[logical_offset |-> o, physical_offset |-> 1048576, length |-> 4096],
           [logical_offset |-> o + 4096, physical_offset |-> 2097152, length |-> 4096]>>}

CandidateFiles == 1..MaxCandidates

\* DeduplicationTarget::Files after resolve_file_sections: every offset is 0;
\* the same file may be listed more than once
FilesOffsets ==
    UNION {[1..n -> [file : CandidateFiles, offset : {0}]] : n \in 0..MaxCandidates}

\* DeduplicationTarget::Sections: one section in each of the files 1..n
SectionsOffsets ==
    UNION {{[i \in 1..n |-> [file |-> i, offset |-> o[i]]] : o \in [1..n -> {0, 4096}]} :
              n \in 2..MaxCandidates}

ExtentChoices(offsets) ==
    LET sections == Range(offsets)
    IN  {e \in [sections -> UNION {ExtentListsAt(o) : o \in {0, 4096}}] :
            \A x \in sections : e[x] \in ExtentListsAt(x.offset)}

PrunerInit ==
    /\ \E offsets \in FilesOffsets \cup SectionsOffsets :
           /\ target = [length |-> TargetLength, offsets |-> offsets]
           /\ extents_of \in ExtentChoices(offsets)
    /\ prune_pc = "start"
    /\ physical_extent_buckets = EmptyMap
    /\ original = target

\* the key with the physical offsets
ExtentKey_Physical(extents) ==
    [i \in DOMAIN extents |-> <<extents[i].physical_offset, extents[i].length>>]

\* extents.into_iter().map(|ext| (ext.logical_offset, ext.length)).collect()
ExtentKey(extents) ==
    [i \in DOMAIN extents |-> <<extents[i].logical_offset, extents[i].length>>]

\* physical_extent_buckets after the loop over target.offsets: under each key
\* the sections with that key, in the order of target.offsets
BucketsOf(offsets) ==
    LET keys == {ExtentKey(extents_of[offsets[i]]) : i \in DOMAIN offsets}
    IN  [k \in keys |-> SelectSeq(offsets, LAMBDA x : ExtentKey(extents_of[x]) = k)]

\* the buckets .values().max_by_key(|v| v.len()) may return: the map is
\* iterated in an arbitrary order, and any longest bucket may come last
BiggestVecs(buckets) ==
    {buckets[k] : k \in {k \in DOMAIN buckets :
                            \A k2 \in DOMAIN buckets : Len(buckets[k2]) <= Len(buckets[k])}}

\* the offsets after the if / else if / else on biggest_vec.len()
PrunedOffsets(offsets, biggest_vec) ==
    IF Len(biggest_vec) = 1 THEN offsets
    ELSE IF Len(biggest_vec) = Len(offsets) THEN <<>>
    ELSE LET remove_these == Range(Tail(biggest_vec))
         IN  SelectSeq(offsets, LAMBDA x : x \notin remove_these)

remove_already_shared_file_sections ==
    /\ prune_pc = "start"
    /\ \/ \* File::open or get_extents fails for a section: `?` returns the error
          /\ target.offsets # <<>>
          /\ prune_pc' = "err"
          /\ UNCHANGED <<target, physical_extent_buckets>>
       \/ \* no section, no bucket: max_by_key returns None and unwrap panics
          /\ target.offsets = <<>>
          /\ prune_pc' = "panic"
          /\ UNCHANGED <<target, physical_extent_buckets>>
       \/ /\ target.offsets # <<>>
          /\ LET buckets == BucketsOf(target.offsets)
             IN  /\ physical_extent_buckets' = buckets
                 /\ \E biggest_vec \in BiggestVecs(buckets) :
                        target' = [target EXCEPT
                                       !.offsets = PrunedOffsets(target.offsets, biggest_vec)]
          /\ prune_pc' = "pruned"
    /\ UNCHANGED <<extents_of, original, driver_vars, tool_vars>>

DriverIdle ==
    /\ block_size = 1
    /\ src_range = [start |-> 0, end |-> 0]
    /\ request = EmptyMap
    /\ iter_order = <<>>
    /\ offset = 0
    /\ batch = 1
    /\ aggregate_results = EmptyMap
    /\ open_fds = EmptyMap
    /\ fd_table = 0..2
    /\ pc = "idle"
    /\ result = [kind |-> "none"]
    /\ ioctls = <<>>

PrunerNext == remove_already_shared_file_sections

InitPruner == PrunerInit /\ DriverIdle /\ ToolIdle

\* one call of remove_already_shared_file_sections
SpecPruner == InitPruner /\ [][PrunerNext]_vars

(***************************************************************************)
(* Properties of remove_already_shared_file_sections.                      *)
(***************************************************************************)
\* the positions of the given target whose extents are physically those of
\* position i
PhysicallySharedWith(i) ==
    {j \in DOMAIN original.offsets :
        /\ j # i
        /\ ExtentKey_Physical(extents_of[original.offsets[j]])
               = ExtentKey_Physical(extents_of[original.offsets[i]])}

\* C10: two candidates are placed in the same bucket only if their extents
\* have identical physical offsets and lengths, so a candidate that is not
\* physically shared with any other candidate is never dropped.
C10_BucketsByPhysicalExtents ==
    prune_pc = "pruned" =>
        /\ \A k \in DOMAIN physical_extent_buckets :
               \A x, y \in Range(physical_extent_buckets[k]) :
                   ExtentKey_Physical(extents_of[x]) = ExtentKey_Physical(extents_of[y])
        /\ \A i \in DOMAIN original.offsets :
               PhysicallySharedWith(i) = {} => original.offsets[i] \in Range(target.offsets)

\* s is a sub-list of t: s is t with some elements left out
RECURSIVE IsSubList(_, _)
IsSubList(s, t) ==
    IF s = <<>> THEN TRUE
    ELSE IF t = <<>> THEN FALSE
    ELSE IF Head(s) = Head(t) THEN IsSubList(Tail(s), Tail(t))
    ELSE IsSubList(s, Tail(t))

\* C11: when the largest bucket B* has 1 < |B*| < number of candidates, the
\* pruned target contains exactly one member of B* and every candidate
\* outside B*; when |B*| = 1 the target is left unchanged; in every case the
\* pruned offsets are a sub-list of the input offsets and length is unchanged.
C11_KeepsOneOfBiggest ==
    prune_pc = "pruned" =>
        /\ \E B \in BiggestVecs(physical_extent_buckets) :
               /\ (1 < Len(B) /\ Len(B) < Len(original.offsets)) =>
                      /\ Len(SelectSeq(target.offsets, LAMBDA x : x \in Range(B))) = 1
                      /\ SelectSeq(target.offsets, LAMBDA x : x \notin Range(B))
                             = SelectSeq(original.offsets, LAMBDA x : x \notin Range(B))
               /\ Len(B) = 1 => target.offsets = original.offsets
        /\ IsSubList(target.offsets, original.offsets)
        /\ target.length = original.length

(***************************************************************************)
(* Part 3: process_dedupe / internal_process_dedupe and the task that      *)
(* records its result (src/bin/dedupetool.rs).  The pruner is Part 2's     *)
(* action; dedupe_files is Part 1, taken here by what it returns.          *)
(***************************************************************************)
FileNames == CandidateFiles

\* DeduplicationTarget::Files: any list of files, the same file may be listed
\* more than once
FilesTargets ==
    {[kind |-> "Files", files |-> f] :
        f \in UNION {[1..n -> FileNames] : n \in 0..MaxCandidates}}

\* DeduplicationTarget::Sections
SectionsTargets ==
    {[kind |-> "Sections", target |-> [length |-> TargetLength, offsets |-> o]] :
        o \in SectionsOffsets}

\* FileOffset::new(file, offset) of an existing file (paths are canonical)
FileOffset(file, at) == [file |-> file, offset |-> at]

\* resolve_file_sections, when metadata and canonicalize succeed; every file
\* has TargetLength bytes
resolve_file_sections(files) ==
    IF files = <<>>
    THEN [length |-> 0, offsets |-> <<>>]
    ELSE [length |-> TargetLength,
          offsets |-> [i \in DOMAIN files |-> FileOffset(files[i], 0)]]

\* `let mut target = match target { .. }`
Resolved(t) ==
    IF t.kind = "Files" THEN resolve_file_sections(t.files) ELSE t.target

\* DedupeResult values
OkNone == [kind |-> "OkNone"]

OkSome(info) == [kind |-> "OkSome", info |-> info]

\* process_dedupe wraps the io::Error with the target
Err(e, t) == [kind |-> "Err", source |-> e, target |-> t]

\* the responses of a map, as the nested `for` loops visit them (the order of
\* the keys does not matter to what the loops compute)
RECURSIVE AllResponses(_)
AllResponses(responses) ==
    IF DOMAIN responses = {} THEN <<>>
    ELSE LET k == CHOOSE k \in DOMAIN responses : TRUE
         IN  responses[k]
                 \o AllResponses([j \in DOMAIN responses \ {k} |-> responses[j]])

\* total_bytes_saved after the loops
RECURSIVE total_bytes_saved(_)
total_bytes_saved(rs) ==
    IF rs = <<>> THEN 0
    ELSE (IF Head(rs).kind = "RangeSame" /\ Head(rs).bytes_deduped > 0
          THEN Head(rs).bytes_deduped ELSE 0)
         + total_bytes_saved(Tail(rs))

\* the DedupeInfo built from the responses of dedupe_files
DedupeInfo(t, first, responses) ==
    [size |-> t.length,
     offset_targeted |-> first,
     offsets_errored |->
         {k \in DOMAIN responses :
             \E i \in DOMAIN responses[k] : responses[k][i].kind = "Error"},
     offsets_affected |->
         {k \in DOMAIN responses :
             \E i \in DOMAIN responses[k] :
                 /\ responses[k][i].kind = "RangeSame"
                 /\ responses[k][i].bytes_deduped > 0},
     total_bytes_saved |-> total_bytes_saved(AllResponses(responses))]

\* dest_reqs: rest collected into a HashMap<FileOffset, DedupeRequest>
dest_reqs(rest) ==
    [k \in Range(rest) |-> [dest |-> k.file, dest_offset |-> k.offset]]

\* what the kernel may answer for one destination of a window of `length`
\* bytes, after the status mapping of dedupe_files
WindowResponses(length) ==
    {Error(22), RangeDiffers, RangeSame(length)}

\* the maps dedupe_files may return for a one-window range: the destinations
\* of one path share a descriptor, and all their responses are listed under
\* one of their keys
DedupeFilesOk(reqs, length) ==
    LET keys  == DOMAIN reqs
        paths == {reqs[k].dest : k \in keys}
        group(f) == {k \in keys : reqs[k].dest = f}
    IN  {[k \in {rep[f] : f \in paths} |->
             [i \in 1..Cardinality(group(k.file)) |-> answer[ord[k.file][i]]]] :
                answer \in [keys -> WindowResponses(length)],
                rep \in {r \in [paths -> keys] : \A f \in paths : r[f] \in group(f)},
                ord \in {o \in [paths -> UNION {[1..n -> keys] : n \in 1..Cardinality(keys)}] :
                            \A f \in paths :
                                /\ DOMAIN o[f] = 1..Cardinality(group(f))
                                /\ Range(o[f]) = group(f)}}

InitProcess ==
    /\ skip_fiemap \in BOOLEAN
    /\ dedupe_target \in FilesTargets \cup SectionsTargets
    /\ files_state \in (IF dedupe_target.kind = "Files" /\ dedupe_target.files # <<>>
                        THEN {"ok", "no_metadata", "missing"} ELSE {"ok"})
    /\ extents_of \in ExtentChoices(Resolved(dedupe_target).offsets)
    /\ target = [length |-> 0, offsets |-> <<>>]
    /\ prune_pc = "idle"
    /\ physical_extent_buckets = EmptyMap
    /\ original = target
    /\ proc_pc = "start"
    /\ proc_result = [kind |-> "none"]
    /\ effects = <<>>
    /\ tracker = TrackerDefault
    /\ DriverIdle
    /\ LibIdle
    /\ StdinIdle
    /\ MainIdle

\* internal_process_dedupe up to the call of the pruner
ResolveTarget ==
    /\ proc_pc = "start"
    /\ \/ \* tokio::fs::metadata(&files[0]) fails: `?` returns the error
          /\ files_state = "no_metadata"
          /\ proc_result' = Err(2, dedupe_target)
          /\ proc_pc' = "returned"
          /\ UNCHANGED <<target, original, prune_pc>>
       \/ \* a listed file does not exist: canonicalize().expect() panics
          /\ files_state = "missing"
          /\ proc_pc' = "panic"
          /\ UNCHANGED <<target, original, prune_pc, proc_result>>
       \/ /\ files_state = "ok"
          /\ target' = Resolved(dedupe_target)
          /\ original' = target'
          /\ prune_pc' = IF skip_fiemap THEN "skipped" ELSE "start"
          /\ proc_pc' = "dispatch"
          /\ UNCHANGED proc_result
    /\ UNCHANGED <<skip_fiemap, dedupe_target, files_state, effects, tracker,
                   extents_of, physical_extent_buckets, driver_vars, lib_vars, stdin_vars,
                   main_vars>>

\* the test of target.offsets.len() against 1 instead of 2
Dispatch_AtLeastOne ==
    /\ proc_pc = "dispatch"
    /\ prune_pc \in {"skipped", "pruned"}
    /\ IF Len(target.offsets) < 1
       THEN /\ proc_result' = OkNone
            /\ effects' = effects
       ELSE /\ proc_result' = OkSome(DedupeInfo(target, Head(target.offsets), EmptyMap))
            /\ effects' = effects \o <<[op |-> "open", file |-> Head(target.offsets).file]>>
    /\ proc_pc' = "returned"
    /\ UNCHANGED <<skip_fiemap, dedupe_target, files_state, tracker, pruner_vars,
                   driver_vars, lib_vars, stdin_vars, main_vars>>

\* internal_process_dedupe after the pruner
Dispatch ==
    /\ proc_pc = "dispatch"
    /\ prune_pc \in {"skipped", "pruned", "err", "panic"}
    /\ \/ \* remove_already_shared_file_sections(..).await? returned an error
          /\ prune_pc = "err"
          /\ proc_result' = Err(5, dedupe_target)
          /\ proc_pc' = "returned"
          /\ UNCHANGED effects
       \/ /\ prune_pc = "panic"
          /\ proc_pc' = "panic"
          /\ UNCHANGED <<proc_result, effects>>
       \/ \* There are no files to deduplicate.
          /\ prune_pc \in {"skipped", "pruned"}
          /\ Len(target.offsets) < 2
          /\ proc_result' = OkNone
          /\ proc_pc' = "returned"
          /\ UNCHANGED effects
       \/ /\ prune_pc \in {"skipped", "pruned"}
          /\ Len(target.offsets) >= 2
          /\ LET first == Head(target.offsets)
                 rest  == Tail(target.offsets)
                 src_range_ == [start |-> first.offset, end |-> first.offset + target.length]
                 open  == [op |-> "open", file |-> first.file]
                 call  == [op |-> "dedupe_files", src |-> first.file,
                           src_range |-> src_range_, request |-> dest_reqs(rest)]
             IN  \/ \* File::open(first.file()) fails
                    /\ effects' = Append(effects, open)
                    /\ proc_result' = Err(13, dedupe_target)
                    /\ proc_pc' = "returned"
                 \/ \* dedupe_files returns an error
                    /\ effects' = effects \o <<open, call>>
                    /\ proc_result' = Err(5, dedupe_target)
                    /\ proc_pc' = "returned"
                 \/ \* dedupe_files panics on an unknown status
                    /\ effects' = effects \o <<open, call>>
                    /\ proc_pc' = "panic"
                    /\ UNCHANGED proc_result
                 \/ /\ effects' = effects \o <<open, call>>
                    /\ \E responses \in DedupeFilesOk(dest_reqs(rest), target.length) :
                           proc_result' = OkSome(DedupeInfo(target, first, responses))
                    /\ proc_pc' = "returned"
    /\ UNCHANGED <<skip_fiemap, dedupe_target, files_state, tracker, pruner_vars,
                   driver_vars, lib_vars, stdin_vars, main_vars>>

\* record_result storing the target's bytes instead of adding them
record_result_Overwrite(t, res) ==
    IF res.kind = "OkSome"
    THEN [t EXCEPT !.max_bytes_saved = res.info.total_bytes_saved]
    ELSE IF res.kind = "OkNone" THEN t
    ELSE [t EXCEPT !.any_failed = TRUE]

\* record_result counting a per-destination error as a failure of the target
record_result_ErroredFails(t, res) ==
    IF res.kind = "OkSome"
    THEN [t EXCEPT !.max_bytes_saved = @ + res.info.total_bytes_saved,
                   !.any_failed = @ \/ res.info.offsets_errored # {}]
    ELSE IF res.kind = "OkNone" THEN t
    ELSE [t EXCEPT !.any_failed = TRUE]

\* Tracker::record_result
record_result(t, res) ==
    IF res.kind = "OkSome"
    THEN [t EXCEPT !.max_bytes_saved = @ + res.info.total_bytes_saved]
    ELSE IF res.kind = "OkNone" THEN t
    ELSE [t EXCEPT !.any_failed = TRUE]

\* the end of the spawned task: the result is recorded in the tracker
RecordResult ==
    /\ proc_pc = "returned"
    /\ tracker' = record_result(tracker, proc_result)
    /\ proc_pc' = "recorded"
    /\ UNCHANGED <<skip_fiemap, dedupe_target, files_state, proc_result, effects,
                   pruner_vars, driver_vars, lib_vars, stdin_vars, main_vars>>

ProcessNext ==
    \/ ResolveTarget
    \/ remove_already_shared_file_sections
    \/ Dispatch
    \/ RecordResult

\* one task of main: process_dedupe on one target, then record_result
SpecProcess == InitProcess /\ [][ProcessNext]_vars

(***************************************************************************)
(* Properties of process_dedupe.                                           *)
(***************************************************************************)
\* the dedupe_files calls made so far
DedupeCalls == SelectSeq(effects, LAMBDA e : e.op = "dedupe_files")

\* the files opened as the source so far
SourceOpens == SelectSeq(effects, LAMBDA e : e.op = "open")

\* every candidate of the given target has the same (physical_offset, length) key
AllPhysicallyShared ==
    \A i, j \in DOMAIN original.offsets :
        ExtentKey_Physical(extents_of[original.offsets[i]])
            = ExtentKey_Physical(extents_of[original.offsets[j]])

\* C12: if every candidate of a target has the same canonical extent key, the
\* pruner empties the target's offsets, and the target is then dropped as a
\* no-op with no FIDEDUPERANGE ioctl issued.  (Stated for targets of two or
\* more candidates: the only bucket of a single candidate has length 1, and
\* the pruner leaves that target as it is.)
C12_AllSharedIsNoOp ==
    (prune_pc = "pruned" /\ Len(original.offsets) >= 2 /\ AllPhysicallyShared) =>
        /\ target.offsets = <<>>
        /\ DedupeCalls = <<>>
        /\ proc_pc \in {"returned", "recorded"} => proc_result = OkNone

\* C13: a Files target whose first file is smaller than 16 KiB is processed
\* as a no-op: no FIDEDUPERANGE ioctl is issued for it (dedupe_files is not
\* called) and it contributes no DedupeInfo and no error.
C13_SmallFilesAreNoOp ==
    (/\ dedupe_target.kind = "Files"
     /\ files_state = "ok"
     /\ dedupe_target.files # <<>>
     /\ TargetLength < 16 * 1024) =>
        /\ DedupeCalls = <<>>
        /\ proc_pc \in {"returned", "recorded"} => proc_result = OkNone

\* C15: a target that has fewer than two offsets when it reaches dispatch (as
\* given or after pruning) is dropped as a no-op: the source file is not
\* opened, dedupe_files is not called, and the result is Ok(None), which adds
\* 0 bytes and does not set any_failed.
C15_FewerThanTwoIsNoOp ==
    (/\ prune_pc \in {"skipped", "pruned"}
     /\ Len(target.offsets) < 2) =>
        /\ SourceOpens = <<>>
        /\ DedupeCalls = <<>>
        /\ proc_pc \in {"returned", "recorded"} => proc_result = OkNone
        /\ tracker = TrackerDefault

\* a target of two or more candidates that the pruner emptied has been
\* dropped and recorded
C15_Witness ==
    /\ proc_pc = "recorded"
    /\ proc_result = OkNone
    /\ prune_pc = "pruned"
    /\ Len(original.offsets) >= 2
    /\ target.offsets = <<>>

(***************************************************************************)
(* Part 4: stdin_fdupes_targets (src/bin/dedupetool.rs), the iterator that *)
(* reads groups of paths from standard input.  One action is one call of   *)
(* Iterator::next.                                                         *)
(***************************************************************************)
\* standard input has at most this many lines
MaxLines == 5

\* the lines standard input may hold: empty, blank, a path, a path followed
\* by a blank
InputLines == {"", " ", "a", "b", "b "}

\* str::trim_end on the lines of InputLines
trim_end(l) ==
    CASE l = " "  -> ""
      [] l = "b " -> "b"
      [] OTHER    -> l

\* PathBuf::from
PathBuf(l) == l

\* self.dedup_lines.drain(..).map(PathBuf::from).collect()
Drain(lines) == [i \in DOMAIN lines |-> PathBuf(lines[i])]

\* Iter::next from the state (lines not read, dedup_lines): what it returns,
\* and the state it leaves
RECURSIVE IterNext(_, _)
IterNext(lines, dl) ==
    IF lines = <<>>
    THEN IF Len(dl) > 1
         THEN [ret |-> <<Drain(dl)>>, lines |-> lines, dedup_lines |-> <<>>]
         ELSE [ret |-> <<>>, lines |-> lines, dedup_lines |-> dl]
    ELSE LET line == trim_end(Head(lines))
         IN  IF line = ""
             THEN IF Len(dl) > 1
                  THEN [ret |-> <<Drain(dl)>>, lines |-> Tail(lines), dedup_lines |-> <<>>]
                  ELSE IterNext(Tail(lines), dl)
             ELSE IterNext(Tail(lines), Append(dl, line))

InitStdin ==
    /\ stdin_input \in UNION {[1..n -> InputLines] : n \in 0..MaxLines}
    /\ stdin_lines = stdin_input
    /\ dedup_lines = <<>>
    /\ emitted = <<>>
    /\ stdin_pc = "iter"
    /\ DriverIdle
    /\ LibIdle
    /\ PrunerIdle
    /\ ProcessIdle
    /\ tracker = TrackerDefault
    /\ MainIdle

\* one call of next() by the `for` loop of main
StdinNext ==
    /\ stdin_pc = "iter"
    /\ LET r == IterNext(stdin_lines, dedup_lines)
       IN  /\ stdin_lines' = r.lines
           /\ dedup_lines' = r.dedup_lines
           /\ emitted' = emitted \o [i \in DOMAIN r.ret |-> [kind |-> "Files", files |-> r.ret[i]]]
           /\ stdin_pc' = IF r.ret = <<>> THEN "end" ELSE "iter"
    /\ UNCHANGED <<stdin_input, driver_vars, lib_vars, pruner_vars, process_vars, tracker, main_vars>>

\* reading a line fails: panic!("Failed to read from stdin: {}", e)
StdinReadError ==
    /\ stdin_pc = "iter"
    /\ stdin_lines # <<>>
    /\ stdin_pc' = "panic"
    /\ UNCHANGED <<stdin_input, stdin_lines, dedup_lines, emitted, driver_vars, lib_vars, pruner_vars,
                   process_vars, tracker, main_vars>>

StdinStep ==
    \/ StdinNext
    \/ StdinReadError

SpecStdin == InitStdin /\ [][StdinStep]_vars

(***************************************************************************)
(* Properties of stdin_fdupes_targets.                                     *)
(***************************************************************************)
\* the blank-line-delimited groups of the input: the non-blank lines between
\* two blank lines (or an end of the input), trimmed, in input order
RECURSIVE GroupsOf(_, _)
GroupsOf(lines, group) ==
    IF lines = <<>> THEN <<group>>
    ELSE IF trim_end(Head(lines)) = "" THEN <<group>> \o GroupsOf(Tail(lines), <<>>)
    ELSE GroupsOf(Tail(lines), Append(group, trim_end(Head(lines))))

\* the targets of the groups that have at least two lines
ExpectedTargets(input) ==
    LET groups == SelectSeq(GroupsOf(input, <<>>), LAMBDA g : Len(g) >= 2)
    IN  [i \in DOMAIN groups |-> [kind |-> "Files", files |-> groups[i]]]

\* C14: the stdin target source emits exactly one Files target per
\* blank-line-delimited group that has at least two non-blank lines,
\* containing exactly that group's lines in input order; a group with fewer
\* than two lines is dropped; the last pending group is flushed at end of
\* input.
C14_OneTargetPerGroup ==
    stdin_pc = "end" => emitted = ExpectedTargets(stdin_input)

(***************************************************************************)
(* Part 5: main (src/bin/dedupetool.rs): the `for` loop over the targets,  *)
(* the semaphore, the spawned tasks, the tracker behind its Mutex, the     *)
(* draining of dedupe_futures and the exit code.  process_dedupe is Part   *)
(* 3, taken here by what it returns.                                       *)
(***************************************************************************)
\* the target source yields at most this many targets
MaxTargets == 3

\* --max-concurrency is at most this
MaxConcurrency == 2

\* the exit code of a Rust process whose main thread panics
PANIC_EXIT_CODE == 101

\* the target the source yields as its i-th: two files of TargetLength bytes
TargetOf(i) == [kind |-> "Files", files |-> <<2 * i - 1, 2 * i>>]

\* what process_dedupe may return for the i-th target: an error, Ok(None), or
\* the DedupeInfo of a map returned by dedupe_files
PipelineOutcomes(i) ==
    LET t     == Resolved(TargetOf(i))
        first == Head(t.offsets)
        reqs  == dest_reqs(Tail(t.offsets))
    IN  {[result |-> Err(5, TargetOf(i)), responses |-> EmptyMap],
         [result |-> OkNone, responses |-> EmptyMap]}
        \cup {[result |-> OkSome(DedupeInfo(t, first, responses)), responses |-> responses] :
                 responses \in DedupeFilesOk(reqs, t.length)}

InitMain ==
    /\ max_concurrency \in 0..MaxConcurrency
    /\ dry_run \in BOOLEAN
    /\ num_targets \in 0..MaxTargets
    /\ main_pc = "for"
    /\ pulled = 0
    /\ permits = max_concurrency
    /\ task = [i \in 1..num_targets |-> "unspawned"]
    /\ task_result = [i \in 1..num_targets |-> [kind |-> "none"]]
    /\ task_responses = [i \in 1..num_targets |-> EmptyMap]
    /\ tracker_owner = 0
    /\ drained = {}
    /\ recorded = [i \in 1..num_targets |-> 0]
    /\ printed = <<>>
    /\ exit_code = -1
    /\ tracker = TrackerDefault
    /\ DriverIdle
    /\ LibIdle
    /\ PrunerIdle
    /\ ProcessIdle
    /\ StdinIdle

\* the process is running
Running == main_pc \notin {"exit", "panic"}

\* the tasks spawned so far
Spawned == {i \in DOMAIN task : task[i] # "unspawned"}

\* the `for` loop ignoring args.dry_run
MainFor_NoDryRun ==
    /\ main_pc = "for"
    /\ IF pulled < num_targets
       THEN /\ pulled' = pulled + 1
            /\ main_pc' = "acquire"
       ELSE /\ main_pc' = "drain"
            /\ UNCHANGED pulled
    /\ UNCHANGED <<max_concurrency, dry_run, num_targets, permits, task, task_result,
                   task_responses, tracker_owner, drained, recorded, printed, exit_code,
                   tracker, driver_vars, lib_vars, pruner_vars, process_vars, stdin_vars>>

\* `for target in ..` takes the next target; a dry run prints it and continues
MainFor ==
    /\ main_pc = "for"
    /\ IF pulled < num_targets
       THEN /\ pulled' = pulled + 1
            /\ IF dry_run
               THEN /\ printed' = Append(printed, TargetOf(pulled + 1))
                    /\ UNCHANGED main_pc
               ELSE /\ main_pc' = "acquire"
                    /\ UNCHANGED printed
       ELSE /\ main_pc' = "drain"
            /\ UNCHANGED <<pulled, printed>>
    /\ UNCHANGED <<max_concurrency, dry_run, num_targets, permits, task, task_result,
                   task_responses, tracker_owner, drained, recorded, exit_code,
                   tracker, driver_vars, lib_vars, pruner_vars, process_vars, stdin_vars>>

\* the task spawned without waiting for a permit
MainAcquireSpawn_NoPermit ==
    /\ main_pc = "acquire"
    /\ permits' = Max(permits - 1, 0)
    /\ task' = [task EXCEPT ![pulled] = "running"]
    /\ main_pc' = "for"
    /\ UNCHANGED <<max_concurrency, dry_run, num_targets, pulled, task_result,
                   task_responses, tracker_owner, drained, recorded, printed, exit_code,
                   tracker, driver_vars, lib_vars, pruner_vars, process_vars, stdin_vars>>

\* concurrency_mutex.acquire_owned().await, then tokio::spawn of the task that
\* owns the permit
MainAcquireSpawn ==
    /\ main_pc = "acquire"
    /\ permits > 0
    /\ permits' = permits - 1
    /\ task' = [task EXCEPT ![pulled] = "running"]
    /\ main_pc' = "for"
    /\ UNCHANGED <<max_concurrency, dry_run, num_targets, pulled, task_result,
                   task_responses, tracker_owner, drained, recorded, printed, exit_code,
                   tracker, driver_vars, lib_vars, pruner_vars, process_vars, stdin_vars>>

\* process_dedupe(skip_fiemap, target).await returns, or panics: the task ends
\* and its permit is dropped by the unwinding
TaskPipeline(i) ==
    /\ Running
    /\ task[i] = "running"
    /\ \/ /\ \E o \in PipelineOutcomes(i) :
                 /\ task_result' = [task_result EXCEPT ![i] = o.result]
                 /\ task_responses' = [task_responses EXCEPT ![i] = o.responses]
          /\ task' = [task EXCEPT ![i] = "finished"]
          /\ UNCHANGED permits
       \/ /\ task' = [task EXCEPT ![i] = "panicked"]
          /\ permits' = permits + 1
          /\ UNCHANGED <<task_result, task_responses>>
    /\ UNCHANGED <<max_concurrency, dry_run, num_targets, main_pc, pulled, tracker_owner,
                   drained, recorded, printed, exit_code,
                   tracker, driver_vars, lib_vars, pruner_vars, process_vars, stdin_vars>>

\* tracker.lock().await
TaskLock(i) ==
    /\ Running
    /\ task[i] = "finished"
    /\ tracker_owner = 0
    /\ tracker_owner' = i
    /\ task' = [task EXCEPT ![i] = "locked"]
    /\ UNCHANGED <<max_concurrency, dry_run, num_targets, main_pc, pulled, permits,
                   task_result, task_responses, drained, recorded, printed, exit_code,
                   tracker, driver_vars, lib_vars, pruner_vars, process_vars, stdin_vars>>

\* tracker.record_result(result); the guard is dropped at the end of the block
TaskRecord(i) ==
    /\ Running
    /\ task[i] = "locked"
    /\ tracker' = record_result(tracker, task_result[i])
    /\ recorded' = [recorded EXCEPT ![i] = @ + 1]
    /\ tracker_owner' = 0
    /\ task' = [task EXCEPT ![i] = "recorded"]
    /\ UNCHANGED <<max_concurrency, dry_run, num_targets, main_pc, pulled, permits,
                   task_result, task_responses, drained, printed, exit_code,
                   driver_vars, lib_vars, pruner_vars, process_vars, stdin_vars>>

\* the task ends: _permit is dropped and the JoinHandle is ready
TaskEnd(i) ==
    /\ Running
    /\ task[i] = "recorded"
    /\ permits' = permits + 1
    /\ task' = [task EXCEPT ![i] = "done"]
    /\ UNCHANGED <<max_concurrency, dry_run, num_targets, main_pc, pulled,
                   task_result, task_responses, tracker_owner, drained, recorded, printed,
                   exit_code, tracker, driver_vars, lib_vars, pruner_vars, process_vars, stdin_vars>>

\* dedupe_futures.next().await returns a finished future; f.expect(..) panics
\* if the task panicked
MainDrain ==
    /\ main_pc = "drain"
    /\ \E i \in Spawned \ drained :
           /\ task[i] \in {"done", "panicked"}
           /\ drained' = drained \cup {i}
           /\ IF task[i] = "panicked"
              THEN /\ main_pc' = "panic"
                   /\ exit_code' = PANIC_EXIT_CODE
              ELSE UNCHANGED <<main_pc, exit_code>>
    /\ UNCHANGED <<max_concurrency, dry_run, num_targets, pulled, permits, task,
                   task_result, task_responses, tracker_owner, recorded, printed,
                   tracker, driver_vars, lib_vars, pruner_vars, process_vars, stdin_vars>>

\* the summary printed although futures are left in dedupe_futures
MainSummary_NoDrain ==
    /\ main_pc = "drain"
    /\ tracker_owner = 0
    /\ exit_code' = IF tracker.any_failed THEN 1 ELSE 0
    /\ main_pc' = "exit"
    /\ UNCHANGED <<max_concurrency, dry_run, num_targets, pulled, permits, task,
                   task_result, task_responses, tracker_owner, drained, recorded, printed,
                   tracker, driver_vars, lib_vars, pruner_vars, process_vars, stdin_vars>>

\* dedupe_futures is empty: the summary is printed, exit(1) if any_failed
MainSummary ==
    /\ main_pc = "drain"
    /\ drained = Spawned
    /\ tracker_owner = 0
    /\ exit_code' = IF tracker.any_failed THEN 1 ELSE 0
    /\ main_pc' = "exit"
    /\ UNCHANGED <<max_concurrency, dry_run, num_targets, pulled, permits, task,
                   task_result, task_responses, tracker_owner, drained, recorded, printed,
                   tracker, driver_vars, lib_vars, pruner_vars, process_vars, stdin_vars>>

MainNext ==
    \/ MainFor
    \/ MainAcquireSpawn
    \/ \E i \in DOMAIN task : TaskPipeline(i)
    \/ \E i \in DOMAIN task : TaskLock(i)
    \/ \E i \in DOMAIN task : TaskRecord(i)
    \/ \E i \in DOMAIN task : TaskEnd(i)
    \/ MainDrain
    \/ MainSummary

\* the runtime keeps running whatever is ready
SpecMain == InitMain /\ [][MainNext]_vars /\ WF_vars(MainNext)

(***************************************************************************)
(* Properties of main.                                                     *)
(***************************************************************************)
\* the targets whose pipeline is running: spawned, result not yet recorded
PipelinesRunning == {i \in DOMAIN task : task[i] \in {"running", "finished", "locked"}}

\* the tasks that hold a permit
PermitHolders ==
    {i \in DOMAIN task : task[i] \in {"running", "finished", "locked", "recorded"}}

\* C16: at every moment the number of targets whose pipeline is running (from
\* task spawn until its result has been recorded) is at most max_concurrency;
\* a task is spawned only with a permit, which it gives back only when its
\* pipeline has completed.
C16_AtMostMaxConcurrency ==
    /\ Cardinality(PipelinesRunning) <= max_concurrency
    /\ permits >= 0
    /\ permits + Cardinality(PermitHolders) = max_concurrency

\* every permit is taken while the `for` loop waits to spawn one more target
C16_Witness ==
    /\ max_concurrency = MaxConcurrency
    /\ Cardinality(PipelinesRunning) = MaxConcurrency
    /\ main_pc = "acquire"
    /\ permits = 0

\* the bytes_deduped of the RangeSame responses of a list
RECURSIVE RangeSameBytes(_)
RangeSameBytes(rs) ==
    IF rs = <<>> THEN 0
    ELSE (IF Head(rs).kind = "RangeSame" THEN Head(rs).bytes_deduped ELSE 0)
         + RangeSameBytes(Tail(rs))

\* the sum over the targets of S that returned a DedupeInfo
RECURSIVE BytesOfTargets(_)
BytesOfTargets(S) ==
    IF S = {} THEN 0
    ELSE LET i == CHOOSE i \in S : TRUE
         IN  (IF task_result[i].kind = "OkSome"
              THEN RangeSameBytes(AllResponses(task_responses[i])) ELSE 0)
             + BytesOfTargets(S \ {i})

\* C17: after all dedupe tasks have finished, max_bytes_saved equals the sum
\* of bytes_deduped over every RangeSame response of every target that
\* returned a DedupeInfo, under every interleaving; before that, it is the
\* sum over the targets recorded so far.
C17_TrackerSumsAllResponses ==
    /\ tracker.max_bytes_saved = BytesOfTargets({i \in DOMAIN task : recorded[i] > 0})
    /\ (\A i \in DOMAIN task : task[i] = "done") =>
           tracker.max_bytes_saved = BytesOfTargets(DOMAIN task)

\* three targets have finished, two of them with bytes saved
C17_Witness ==
    /\ num_targets = 3
    /\ \A i \in DOMAIN task : task[i] = "done"
    /\ Cardinality({i \in DOMAIN task :
                       /\ task_result[i].kind = "OkSome"
                       /\ task_result[i].info.total_bytes_saved > 0}) = 2
    /\ tracker.max_bytes_saved = 2 * TargetLength

\* some target's pipeline returned a top-level error
AnyTargetFailed == \E i \in DOMAIN task : task_result[i].kind = "Err"

AllRecordedAtExit ==
    /\ main_pc = "exit"
    /\ \A i \in 1..num_targets : recorded[i] = 1

C20_DryRunDoesNothing ==
    dry_run =>
        /\ \A i \in DOMAIN task : task[i] = "unspawned"
        /\ permits = max_concurrency
        /\ main_pc # "acquire"
        /\ tracker = TrackerDefault
        /\ main_pc = "exit" => exit_code = 0

\* a dry run over three targets has printed them and exited
C20_Witness ==
    /\ dry_run
    /\ main_pc = "exit"
    /\ num_targets = 3
    /\ printed = <<TargetOf(1), TargetOf(2), TargetOf(3)>>

(***************************************************************************)
(* Part 6: get_extents (src/ioctl_fiemap.rs).  One action is one turn of   *)
(* the `while` loop, with its FS_IOC_FIEMAP ioctl; the kernel's reply is   *)
(* the environment.  Offsets are in bytes, on a grid of 4096-byte blocks.  *)
(***************************************************************************)
\* the ranges asked for end at most this many blocks into the file
MaxBlocks == 3

\* one call of FS_IOC_FIEMAP returns at most this many extents
MaxReplyExtents == 2

FsBlock == 4096

\* linux/fiemap.h, through the module ioctl_consts
FIEMAP_EXTENT_LAST == 1

FIEMAP_EXTENT_SHARED == 8192

\* (flags & flag) != 0, for a flag of one bit
HasFlag(flags, flag) == (flags \div flag) % 2 = 1

\* ExtentFlag::set_from, for the flags the model's kernel sets
set_from(flags) ==
    (IF HasFlag(flags, FIEMAP_EXTENT_LAST) THEN {"Last"} ELSE {})
    \cup (IF HasFlag(flags, FIEMAP_EXTENT_SHARED) THEN {"Shared"} ELSE {})

\* the Extent pushed for a FileExtent
Extent(extent) ==
    [logical_offset |-> extent.fe_logical,
     physical_offset |-> extent.fe_physical,
     length |-> extent.fe_length,
     flags |-> set_from(extent.fe_flags)]

\* the byte offsets of the grid
GridOffsets == {b * FsBlock : b \in 0..MaxBlocks}

\* the FileExtent values the kernel may write
FileExtents ==
    [fe_logical : GridOffsets \ {MaxBlocks * FsBlock},
     fe_physical : {1048576},
     fe_length : {FsBlock, 2 * FsBlock},
     fe_flags : {0, FIEMAP_EXTENT_LAST, FIEMAP_EXTENT_SHARED,
                 FIEMAP_EXTENT_LAST + FIEMAP_EXTENT_SHARED}]

\* what the kernel may reply to a request for [s, e): extents that overlap the
\* range, in increasing order without overlap, the flag LAST on none but the
\* last one.  The file may change between two calls, so a reply is not tied to
\* the replies before it.
FiemapReplies(s, e) ==
    {r \in UNION {[1..n -> FileExtents] : n \in 0..MaxReplyExtents} :
        /\ \A i \in DOMAIN r :
               /\ r[i].fe_logical < e
               /\ r[i].fe_logical + r[i].fe_length > s
               /\ i < Len(r) => ~HasFlag(r[i].fe_flags, FIEMAP_EXTENT_LAST)
               /\ i < Len(r) => r[i].fe_logical + r[i].fe_length <= r[i + 1].fe_logical}

\* the ranges get_extents is called with
ExtentRanges ==
    {[start |-> s, end |-> e] : s \in GridOffsets, e \in GridOffsets} \ 
        {rg \in [start : GridOffsets, end : GridOffsets] : rg.start > rg.end}

InitExtents ==
    /\ fm_range \in ExtentRanges
    /\ fm_offset = fm_range.start
    /\ fm_extents = <<>>
    /\ fm_calls = <<>>
    /\ fm_pc = "while"
    /\ fm_result = [kind |-> "none"]
    /\ DriverIdle
    /\ PrunerIdle
    /\ ProcessIdle
    /\ tracker = TrackerDefault
    /\ StdinIdle
    /\ MainIdle
    /\ ChunksIdle
    /\ WalkIdle
    /\ AverageIdle
    /\ ChunkFileIdle
    /\ GroupIdle

\* the cursor moved to the start of the last extent
next_offset_Start(last) == last.fe_logical

\* Move offset to the end of the extent we just saw
next_offset(last) == last.fe_logical + last.fe_length

\* the test for the empty file
returns_empty(at, valid_extents) == at = 0 /\ valid_extents = <<>>

\* one turn of `while offset < range.end`
FiemapCall ==
    /\ fm_pc = "while"
    /\ fm_offset < fm_range.end
    /\ LET fm_start  == fm_offset
           fm_length == fm_range.end - fm_offset
       IN  \/ \* ioctl(file, FS_IOC_FIEMAP, &mut request)? fails
              /\ fm_calls' = Append(fm_calls, [fm_start |-> fm_start, fm_length |-> fm_length,
                                               ok |-> FALSE, reply |-> <<>>])
              /\ fm_result' = [kind |-> "Err", error |-> "Os", extents |-> <<>>]
              /\ fm_pc' = "returned"
              /\ UNCHANGED <<fm_offset, fm_extents>>
           \/ \E valid_extents \in FiemapReplies(fm_start, fm_start + fm_length) :
                  LET pushed == fm_extents \o [i \in DOMAIN valid_extents |->
                                                  Extent(valid_extents[i])]
                      last   == valid_extents[Len(valid_extents)]
                  IN  /\ fm_calls' = Append(fm_calls,
                                            [fm_start |-> fm_start, fm_length |-> fm_length,
                                             ok |-> TRUE, reply |-> valid_extents])
                      /\ fm_extents' = pushed
                      /\ IF returns_empty(fm_offset, valid_extents)
                         THEN \* empty file
                              /\ fm_result' = [kind |-> "Ok", error |-> "", extents |-> <<>>]
                              /\ fm_pc' = "returned"
                              /\ UNCHANGED fm_offset
                         ELSE IF valid_extents = <<>>
                         THEN /\ fm_result' = [kind |-> "Err", error |-> "InvalidData",
                                               extents |-> <<>>]
                              /\ fm_pc' = "returned"
                              /\ UNCHANGED fm_offset
                         ELSE IF HasFlag(last.fe_flags, FIEMAP_EXTENT_LAST)
                         THEN \* break, then Ok(extents)
                              /\ fm_result' = [kind |-> "Ok", error |-> "", extents |-> pushed]
                              /\ fm_pc' = "returned"
                              /\ UNCHANGED fm_offset
                         ELSE /\ fm_offset' = next_offset(last)
                              /\ UNCHANGED <<fm_pc, fm_result>>
    /\ UNCHANGED <<fm_range, outside_extents>>

\* the loop ends because offset >= range.end: Ok(extents)
ReturnExtents ==
    /\ fm_pc = "while"
    /\ fm_offset >= fm_range.end
    /\ fm_result' = [kind |-> "Ok", error |-> "", extents |-> fm_extents]
    /\ fm_pc' = "returned"
    /\ UNCHANGED <<fm_range, fm_offset, fm_extents, fm_calls, outside_extents>>

ExtentsNext ==
    \/ FiemapCall
    \/ ReturnExtents

\* one call of get_extents; the loop goes on while it can
SpecExtents == InitExtents /\ [][ExtentsNext]_vars /\ WF_vars(ExtentsNext)

(***************************************************************************)
(* Properties of get_extents.                                              *)
(***************************************************************************)
\* the extents of the replies of the calls, in order
RECURSIVE RepliesConcatenated(_)
RepliesConcatenated(calls) ==
    IF calls = <<>> THEN <<>>
    ELSE [i \in DOMAIN Head(calls).reply |-> Extent(Head(calls).reply[i])]
             \o RepliesConcatenated(Tail(calls))

\* C21: when a FIEMAP call returns zero extents: if it is the first call of
\* the invocation the result is Ok with an empty list, for any requested
\* range; if it is a non-initial call the result is an InvalidData error.
C21_ZeroExtents ==
    fm_pc = "returned" =>
        \A i \in DOMAIN fm_calls :
            (fm_calls[i].ok /\ fm_calls[i].reply = <<>>) =>
                IF i = 1
                THEN fm_result.kind = "Ok" /\ fm_result.extents = <<>>
                ELSE fm_result.kind = "Err" /\ fm_result.error = "InvalidData"

\* every call asks for [cursor, end), the first cursor is range.start and
\* each later one is the end of the last extent of the reply before, which
\* was not empty, had no LAST flag and ended before range.end
CursorChain ==
    \A i \in DOMAIN fm_calls :
        /\ fm_calls[i].fm_start + fm_calls[i].fm_length = fm_range.end
        /\ fm_calls[i].fm_start < fm_range.end
        /\ i = 1 => fm_calls[i].fm_start = fm_range.start
        /\ i > 1 =>
               LET before == fm_calls[i - 1].reply
                   last   == before[Len(before)]
               IN  /\ fm_calls[i - 1].ok
                   /\ before # <<>>
                   /\ ~HasFlag(last.fe_flags, FIEMAP_EXTENT_LAST)
                   /\ fm_calls[i].fm_start = last.fe_logical + last.fe_length

\* C22: get_extents returns, in order, the concatenation of the extents
\* returned by each FIEMAP call; each call requests [cursor, end) with cursor
\* initially range.start; after a non-empty return whose last extent lacks
\* LAST the cursor becomes last.logical_offset + last.length; no further call
\* is made once an extent flagged LAST has been returned or once
\* cursor >= end; and the loop terminates (every reply of the kernel overlaps
\* the range asked for, so every call advances the cursor).
C22_CursorWalk ==
    /\ [](CursorChain)
    /\ [](fm_result.kind = "Ok" => fm_result.extents = RepliesConcatenated(fm_calls))
    /\ [][fm_pc = "returned" => fm_calls' = fm_calls]_vars
    /\ <>(fm_pc = "returned")

\* three calls, the last of which returned the extent flagged LAST
C22_Witness ==
    /\ fm_pc = "returned"
    /\ fm_result.kind = "Ok"
    /\ Len(fm_calls) = 3
    /\ Len(fm_result.extents) = 3
    /\ "Last" \in fm_result.extents[3].flags

(***************************************************************************)
(* Part 7: ChunkManager (src/src/diskblade/chunk_manager.rs).              *)
(* Chunk indices and path indices count from 1.  A (hash, length) pair is  *)
(* a chunk kind: chunks of one kind have the same hash and length.         *)
(***************************************************************************)
\* most paths pushed
MaxPaths == 3

\* most chunks of one path
MaxChunks == 2

\* the (hash, length) pairs of the chunks
ChunkKinds == {1, 2}

\* the length of the chunks of a kind
KindLength(kind) == kind * FsBlock

\* Chunk { hash, offset, length } of each chunk of a file cut into `kinds`
RECURSIVE Chunks(_, _)
Chunks(kinds, at) ==
    IF kinds = <<>> THEN <<>>
    ELSE <<[hash |-> Head(kinds), offset |-> at, length |-> KindLength(Head(kinds))]>>
             \o Chunks(Tail(kinds), at + KindLength(Head(kinds)))

\* the chunk lists chunk_file hands to push_path
ChunkLists == UNION {[1..n -> ChunkKinds] : n \in 1..MaxChunks}

\* (ChunkHash, ChunkLength) of a chunk
KeyOf(chunk) == <<chunk.hash, chunk.length>>

\* chunk_index_to_path.get(index) with the ranges given
PathIn(ranges, c) ==
    CHOOSE p \in DOMAIN ranges : ranges[p].start <= c /\ c < ranges[p].end

\* chunk_index_to_path.get(index)
PathOfChunk(c) == PathIn(cm_ranges, c)

\* ChunkManager::default(), before FromIterator::from_iter pushes the paths
InitChunks ==
    /\ cm_input \in UNION {[1..n -> ChunkLists] : n \in 1..MaxPaths}
    /\ cm_chunk_data = <<>>
    /\ cm_ranges = <<>>
    /\ cm_buckets = <<>>
    /\ cm_pc = "push"
    /\ cm_index = 0
    /\ cm_chunk = 0
    /\ cm_start_chunks = <<>>
    /\ cm_groups = <<>>
    /\ DriverIdle
    /\ PrunerIdle
    /\ ProcessIdle
    /\ tracker = TrackerDefault
    /\ StdinIdle
    /\ MainIdle
    /\ ExtentsIdle
    /\ WalkIdle
    /\ AverageIdle
    /\ ChunkFileIdle
    /\ GroupIdle

\* hash_to_chunk_index after the indices `added` of chunk_data `data` went in
Inserted(buckets, data, added) ==
    LET keys == DOMAIN buckets \cup {KeyOf(data[c]) : c \in added}
    IN  [k \in keys |->
            (IF k \in DOMAIN buckets THEN buckets[k] ELSE {})
                \cup {c \in added : KeyOf(data[c]) = k}]

\* push_path
PushPath ==
    /\ cm_pc = "push"
    /\ Len(cm_ranges) < Len(cm_input)
    /\ LET path_start == Len(cm_chunk_data)
           data       == cm_chunk_data \o Chunks(cm_input[Len(cm_ranges) + 1], 0)
           path_end   == Len(data)
       IN  /\ cm_chunk_data' = data
           /\ cm_buckets' = Inserted(cm_buckets, data, (path_start + 1)..path_end)
           /\ cm_ranges' = Append(cm_ranges, [start |-> path_start + 1, end |-> path_end + 1])
    /\ UNCHANGED <<cm_input, cm_pc, cm_index, cm_chunk, cm_start_chunks, cm_groups,
                   outside_chunks>>

\* `v.retain` that keeps every index
retain_all(v, w) == w = v

\* w can be what `v.retain(|index| files.insert(file))` leaves of the bucket
\* v: of each file the index that the HashSet yields first
retain_first_of_file(v, w) ==
    /\ w \subseteq v
    /\ \A c \in v : Cardinality({d \in w : PathOfChunk(d) = PathOfChunk(c)}) = 1

\* the chunks whose file has another chunk of the same (hash, length)
Repeated ==
    {c \in DOMAIN cm_chunk_data :
        \E d \in DOMAIN cm_chunk_data \ {c} :
            /\ PathOfChunk(d) = PathOfChunk(c)
            /\ KeyOf(cm_chunk_data[d]) = KeyOf(cm_chunk_data[c])}

\* the first statement of into_file_section_targets: every chunk that is
\* not Repeated stays, and of the Repeated ones what retain leaves
Uniquify ==
    /\ cm_pc = "push"
    /\ Len(cm_ranges) = Len(cm_input)
    /\ \E some \in SUBSET Repeated :
           LET kept == (DOMAIN cm_chunk_data \ Repeated) \cup some
           IN
           /\ \A k \in DOMAIN cm_buckets :
                  retain_first_of_file(cm_buckets[k], kept \cap cm_buckets[k])
           /\ cm_buckets' =
                  [k \in {j \in DOMAIN cm_buckets : Cardinality(kept \cap cm_buckets[j]) > 1}
                      |-> kept \cap cm_buckets[k]]
    /\ cm_pc' = "scan"
    /\ cm_index' = 1
    /\ cm_chunk' = cm_ranges[1].start
    /\ cm_start_chunks' = <<>>
    /\ UNCHANGED <<cm_input, cm_chunk_data, cm_ranges, cm_groups, outside_chunks>>

\* the orders `start_chunks.iter_mut()` can yield the paths in
PathOrders(starts) ==
    {o \in [1..Cardinality(DOMAIN starts) -> DOMAIN starts] :
        \A i, j \in DOMAIN o : o[i] = o[j] => i = j}

\* the chunk indices create_target removes from the buckets
Removed(index, starts, count) ==
    UNION {starts[p]..(starts[p] + count - 1) : p \in DOMAIN starts \ {index}}

\* the buckets without the indices `gone`, empty buckets dropped
Without(buckets, gone) ==
    [k \in {j \in DOMAIN buckets : buckets[j] \ gone # {}} |-> buckets[k] \ gone]

\* create_target panics: start_chunks has no entry for the scanned path, or
\* chunk_data is indexed past its end
create_target_panics(index, starts, chunk_index) ==
    \/ index \notin DOMAIN starts
    \/ \E c \in Removed(index, starts, chunk_index - starts[index]) :
           c > Len(cm_chunk_data)

\* the targets create_target can return, one for each order of the HashMap
create_target(index, starts, chunk_index) ==
    LET first_index == starts[index]
        last_index  == chunk_index - 1
        first_chunk == cm_chunk_data[first_index]
        last_chunk  == cm_chunk_data[last_index]
    IN  {[length  |-> last_chunk.offset + last_chunk.length - first_chunk.offset,
          offsets |-> [i \in DOMAIN o |->
                          [file |-> o[i], offset |-> cm_chunk_data[starts[o[i]]].offset]],
          path    |-> index,
          first   |-> first_index,
          count   |-> last_index + 1 - first_index,
          starts  |-> starts] : o \in PathOrders(starts)}

\* group_and_reset panics in create_target
GroupPanics(chunk_index) ==
    /\ Cardinality(DOMAIN cm_start_chunks) >= 2
    /\ create_target_panics(cm_index, cm_start_chunks, chunk_index)

\* the closure group_and_reset, followed by `start_chunks = after` where the
\* code assigns it (assigns)
GroupAndReset(chunk_index, assigns, after) ==
    IF GroupPanics(chunk_index)
    THEN /\ cm_pc' = "panic"
         /\ UNCHANGED <<cm_buckets, cm_groups, cm_start_chunks>>
    ELSE IF Cardinality(DOMAIN cm_start_chunks) >= 2
         THEN /\ \E t \in create_target(cm_index, cm_start_chunks, chunk_index) :
                     cm_groups' = Append(cm_groups, t)
              /\ cm_buckets' = Without(cm_buckets,
                                   Removed(cm_index, cm_start_chunks,
                                           chunk_index - cm_start_chunks[cm_index]))
              /\ cm_start_chunks' = IF assigns THEN after ELSE <<>>
              /\ UNCHANGED cm_pc
         ELSE /\ cm_start_chunks' = IF assigns THEN after ELSE cm_start_chunks
              /\ UNCHANGED <<cm_buckets, cm_groups, cm_pc>>

\* current_chunks: the path and index of every chunk of the bucket
CurrentChunks(bucket) ==
    [p \in {PathOfChunk(c) : c \in bucket} |->
        CHOOSE c \in bucket : PathOfChunk(c) = p]

\* new_chunks: the start chunks of the paths of the current set
new_chunks(current, starts) ==
    [p \in DOMAIN current \cap DOMAIN starts |-> starts[p]]

\* one turn of `for chunk_index in range.start.0..range.end.0`
ScanChunk ==
    /\ cm_pc = "scan"
    /\ cm_chunk < cm_ranges[cm_index].end
    /\ LET key == KeyOf(cm_chunk_data[cm_chunk])
       IN  IF key \in DOMAIN cm_buckets /\ cm_chunk \in cm_buckets[key]
           THEN LET current  == CurrentChunks(cm_buckets[key])
                    narrowed == new_chunks(current, cm_start_chunks)
                IN  IF DOMAIN cm_start_chunks = {}
                    THEN /\ cm_start_chunks' = current
                         /\ UNCHANGED <<cm_buckets, cm_groups, cm_pc>>
                    ELSE IF Cardinality(DOMAIN narrowed) < 2
                         THEN GroupAndReset(cm_chunk, TRUE, current)
                         ELSE /\ cm_start_chunks' = narrowed
                              /\ UNCHANGED <<cm_buckets, cm_groups, cm_pc>>
           ELSE GroupAndReset(cm_chunk, FALSE, <<>>)
    /\ cm_chunk' = IF GroupPanics(cm_chunk) THEN cm_chunk ELSE cm_chunk + 1
    /\ UNCHANGED <<cm_input, cm_chunk_data, cm_ranges, cm_index, outside_chunks>>

\* the end of the inner loop: "cleanup the last group", and the next path
ScanNextPath ==
    /\ cm_pc = "scan"
    /\ cm_chunk = cm_ranges[cm_index].end
    /\ IF GroupPanics(cm_chunk)
       THEN /\ cm_pc' = "panic"
            /\ UNCHANGED <<cm_buckets, cm_groups, cm_start_chunks, cm_index, cm_chunk>>
       ELSE /\ IF Cardinality(DOMAIN cm_start_chunks) >= 2
               THEN /\ \E t \in create_target(cm_index, cm_start_chunks, cm_chunk) :
                           cm_groups' = Append(cm_groups, t)
                    /\ cm_buckets' = Without(cm_buckets,
                                         Removed(cm_index, cm_start_chunks,
                                                 cm_chunk - cm_start_chunks[cm_index]))
               ELSE UNCHANGED <<cm_buckets, cm_groups>>
            /\ cm_start_chunks' = <<>>
            /\ IF cm_index = Len(cm_ranges)
               THEN /\ cm_pc' = "done"
                    /\ UNCHANGED <<cm_index, cm_chunk>>
               ELSE /\ cm_index' = cm_index + 1
                    /\ cm_chunk' = cm_ranges[cm_index + 1].start
                    /\ UNCHANGED cm_pc
    /\ UNCHANGED <<cm_input, cm_chunk_data, cm_ranges, outside_chunks>>

ChunksNext ==
    \/ PushPath
    \/ Uniquify
    \/ ScanChunk
    \/ ScanNextPath

SpecChunks == InitChunks /\ [][ChunksNext]_vars

(***************************************************************************)
(* Properties of the ChunkManager.                                         *)
(***************************************************************************)
\* the (hash, length) of the `count` chunks from chunk index `first` on
RunKeys(first, count) == [j \in 1..count |-> KeyOf(cm_chunk_data[first + j - 1])]

\* path p has `count` consecutive chunks from chunk index `first` on
RunInside(p, first, count) ==
    /\ cm_ranges[p].start <= first
    /\ first + count <= cm_ranges[p].end

\* C23: for every target emitted from a run of L consecutive chunks of the
\* scanned path P, every other path p of the target has L consecutive chunks,
\* starting at its recorded start chunk and all inside p's own chunk list,
\* whose (hash, length) sequence equals that of P's run.
C23_RunsAreEqual ==
    \A g \in DOMAIN cm_groups :
        LET t == cm_groups[g]
        IN  \A p \in DOMAIN t.starts \ {t.path} :
                /\ RunInside(p, t.starts[p], t.count)
                /\ RunKeys(t.starts[p], t.count) = RunKeys(t.first, t.count)

\* path p has somewhere the run of `count` chunks that starts at `first`
SharesRun(p, first, count) ==
    \E c \in cm_ranges[p].start..(cm_ranges[p].end - count) :
        RunKeys(c, count) = RunKeys(first, count)

\* C24: for every run of L chunks emitted across a set of paths, there is no
\* strict superset of those paths that all share a run of L chunks starting
\* at the same source position: no path outside the target has the run.
C24_Maximal ==
    \A g \in DOMAIN cm_groups :
        LET t == cm_groups[g]
        IN  \A p \in DOMAIN cm_ranges \ DOMAIN t.starts :
                ~SharesRun(p, t.first, t.count)

\* the files the chunks of a bucket belong to
FilesOf(bucket) == {PathOfChunk(c) : c \in bucket}

\* C25: after into_file_section_targets every bucket remaining in the
\* (hash, length) multimap holds chunks of at least two distinct files.
C25_BucketsOfTwoFiles ==
    cm_pc = "done" =>
        \A k \in DOMAIN cm_buckets : Cardinality(FilesOf(cm_buckets[k])) >= 2

\* a bucket holds at most one chunk index of each file
OnePerFile(bucket) ==
    \A c, d \in bucket : PathOfChunk(c) = PathOfChunk(d) => c = d

\* a step after the uniquification puts no index into a bucket
NothingReintroduced ==
    cm_pc \in {"scan", "done", "panic"} =>
        \A k \in DOMAIN cm_buckets' :
            (k \in DOMAIN cm_buckets) /\ (cm_buckets'[k] \subseteq cm_buckets[k])

\* C26: from the end of the uniquification step of into_file_section_targets
\* until it returns, every (hash, length) bucket holds at most one chunk
\* index per file: the duplicates of a file are discarded and no index is
\* put into a bucket again.
C26_OneChunkPerFile ==
    /\ [](cm_pc \in {"scan", "done", "panic"} =>
              \A k \in DOMAIN cm_buckets : OnePerFile(cm_buckets[k]))
    /\ [][NothingReintroduced]_vars

\* a file had the same chunk twice, in a bucket other files are in, and
\* into_file_section_targets has returned a target
C26_Witness ==
    /\ cm_pc = "done"
    /\ cm_groups # <<>>
    /\ \E p \in DOMAIN cm_input :
           /\ Len(cm_input[p]) = 2
           /\ cm_input[p][1] = cm_input[p][2]
           /\ \E q \in DOMAIN cm_input \ {p} : \E i \in DOMAIN cm_input[q] :
                  cm_input[q][i] = cm_input[p][1]

\* C30: in every target emitted while scanning path P, P's FileOffset is the
\* first entry of `offsets`, the one the orchestrator takes as the source.
C30_ScannedPathFirst ==
    \A g \in DOMAIN cm_groups :
        cm_groups[g].offsets[1].file = cm_groups[g].path

(***************************************************************************)
(* Part 8: the chunking tasks of group_files and process_entry             *)
(* (src/src/diskblade.rs).  The walking task has sent the entries; the     *)
(* tasks receive them one by one from walk_recv.                           *)
(***************************************************************************)
\* most entries the walk yields
MaxEntries == 3

\* most chunking tasks (config.threads)
MaxThreads == 2

\* the inodes under the directory
Inodes == {1, 2}

\* what the metadata says of an inode: "file" is a regular file of
\* size >= min_size that is not read-only
InodeKinds == {"file", "dir", "small", "readonly"}

\* the walks: an entry is an inode, or 0 for Err(walkdir::Error)
Walks == UNION {[1..n -> Inodes \cup {0}] : n \in 1..MaxEntries}

InitWalk ==
    /\ wk_inodes \in {k \in [Inodes -> InodeKinds] : k[1] = "file"}
    /\ wk_entries \in Walks
    /\ wk_next = 1
    /\ \E threads \in 1..MaxThreads :
           wk_worker = [w \in 1..threads |-> [pc |-> "recv", entry |-> 0, chunker |-> TRUE]]
    /\ seen_inodes = {}
    /\ wk_filtered = {}
    /\ wk_passed = {}
    /\ wk_chunked = {}
    /\ DriverIdle
    /\ PrunerIdle
    /\ ProcessIdle
    /\ tracker = TrackerDefault
    /\ StdinIdle
    /\ MainIdle
    /\ ExtentsIdle
    /\ ChunksIdle
    /\ AverageIdle
    /\ ChunkFileIdle
    /\ GroupIdle

\* process_entry before the lock: does the entry reach the seen-inode filter
reaches_filter(entry) ==
    /\ entry # 0
    /\ wk_inodes[entry] # "dir"
    /\ wk_inodes[entry] # "small"
    /\ wk_inodes[entry] # "readonly"

\* walk_recv.recv_async() and process_entry up to seen_inodes.lock()
Receive(w) ==
    /\ wk_worker[w].pc = "recv"
    /\ wk_next <= Len(wk_entries)
    /\ wk_next' = wk_next + 1
    /\ wk_worker' = [wk_worker EXCEPT ![w] =
           IF reaches_filter(wk_entries[wk_next])
           THEN [@ EXCEPT !.pc = "lock", !.entry = wk_next]
           ELSE @]
    /\ UNCHANGED <<wk_inodes, wk_entries, seen_inodes, wk_filtered, wk_passed, wk_chunked,
                   outside_walk>>

\* insert that reports every inode as new
insert_Always(ino, seen) == TRUE

\* guard.insert(metadata.ino()): true when the inode was not in the set
insert(ino, seen) == ino \notin seen

\* the block holding the guard: lock, insert, unlock
LockInsert(w) ==
    /\ wk_worker[w].pc = "lock"
    /\ LET e   == wk_worker[w].entry
           ino == wk_entries[e]
       IN  /\ seen_inodes' = seen_inodes \cup {ino}
           /\ wk_filtered' = wk_filtered \cup {e}
           /\ IF insert(ino, seen_inodes)
              THEN /\ wk_passed' = wk_passed \cup {e}
                   /\ wk_worker' = [wk_worker EXCEPT ![w].pc = "chunk"]
              ELSE /\ wk_worker' = [wk_worker EXCEPT ![w].pc = "recv", ![w].entry = 0]
                   /\ UNCHANGED wk_passed
    /\ UNCHANGED <<wk_inodes, wk_entries, wk_next, wk_chunked, outside_walk>>

\* how chunk_file can end: the file does not open, the chunker fails while
\* reading, or all chunks are read
ChunkOutcomes == {"open_err", "chunk_err", "ok"}

\* chunk_file, and the send of its chunks
ChunkFile(w) ==
    /\ wk_worker[w].pc = "chunk"
    /\ wk_chunked' = wk_chunked \cup {wk_worker[w].entry}
    /\ \E outcome \in ChunkOutcomes :
           wk_worker' = [wk_worker EXCEPT ![w] =
               IF outcome = "open_err"
               THEN [@ EXCEPT !.pc = "recv", !.entry = 0]
               ELSE IF ~@.chunker
               THEN [@ EXCEPT !.pc = "panic"]
               ELSE IF outcome = "chunk_err"
               THEN [@ EXCEPT !.pc = "recv", !.entry = 0, !.chunker = FALSE]
               ELSE [@ EXCEPT !.pc = "recv", !.entry = 0]]
    /\ UNCHANGED <<wk_inodes, wk_entries, wk_next, seen_inodes, wk_filtered, wk_passed,
                   outside_walk>>

\* recv_async fails: the channel is empty and the walking task is gone
Finish(w) ==
    /\ wk_worker[w].pc = "recv"
    /\ wk_next > Len(wk_entries)
    /\ wk_worker' = [wk_worker EXCEPT ![w].pc = "finished"]
    /\ UNCHANGED <<wk_inodes, wk_entries, wk_next, seen_inodes, wk_filtered, wk_passed,
                   wk_chunked, outside_walk>>

WalkNext ==
    \/ \E w \in DOMAIN wk_worker : Receive(w)
    \/ \E w \in DOMAIN wk_worker : LockInsert(w)
    \/ \E w \in DOMAIN wk_worker : ChunkFile(w)
    \/ \E w \in DOMAIN wk_worker : Finish(w)

SpecWalk == InitWalk /\ [][WalkNext]_vars

\* the entries of an inode among a set of entries
OfInode(entries, ino) == {e \in entries : wk_entries[e] = ino}

\* C27: across all chunking tasks, only entries that are regular files of
\* size >= min_size and not read-only are chunked, and each inode is chunked
\* at most once: of the entries with the same inode that reach the
\* seen-inode filter, exactly one passes it, under every interleaving.
C27_EachInodeOnce ==
    /\ \A e \in wk_chunked : wk_entries[e] # 0 /\ wk_inodes[wk_entries[e]] = "file"
    /\ \A e, f \in wk_chunked : wk_entries[e] = wk_entries[f] => e = f
    /\ wk_chunked \subseteq wk_passed
    /\ \A e \in wk_filtered : Cardinality(OfInode(wk_passed, wk_entries[e])) = 1

\* two tasks took two entries of one inode through the filter, and the one
\* that passed was chunked
C27_Witness ==
    /\ \E e, f \in wk_filtered :
           /\ e # f
           /\ wk_entries[e] = wk_entries[f]
           /\ e \in wk_chunked
    /\ \A w \in DOMAIN wk_worker : wk_worker[w].pc = "finished"
    /\ Cardinality(DOMAIN wk_worker) = 2

(***************************************************************************)
(* Part 9: the average chunk size chosen by group_files                    *)
(* (src/src/diskblade.rs).  The limits are those of fastcdc::v2020.        *)
(***************************************************************************)
MINIMUM_MIN == 64
MINIMUM_MAX == 1048576
AVERAGE_MIN == 256
AVERAGE_MAX == 4194304
MAXIMUM_MIN == 1024
MAXIMUM_MAX == 16777216

\* Default average chunk size to 128K.
DEFAULT_AVG_CHUNK_SIZE == 128 * 1024

DEFAULT_MAX_CHUNK_SIZE == MAXIMUM_MAX

\* the values of --min-size the value_parser accepts, at and around the limits
MinSizes ==
    {MINIMUM_MIN, MAXIMUM_MIN, 65536, DEFAULT_AVG_CHUNK_SIZE - 1, DEFAULT_AVG_CHUNK_SIZE,
     DEFAULT_AVG_CHUNK_SIZE + 1, 524288, MINIMUM_MAX}

\* the values of --max-size the value_parser accepts, and its absence
MaxSizes ==
    {<<>>} \cup
    {<<v>> : v \in {MAXIMUM_MIN, 65536, DEFAULT_AVG_CHUNK_SIZE - 1, DEFAULT_AVG_CHUNK_SIZE,
                    DEFAULT_AVG_CHUNK_SIZE + 1, MINIMUM_MAX, AVERAGE_MAX, 8388608,
                    MAXIMUM_MAX}}

InitAverage ==
    /\ av_min \in MinSizes
    /\ av_max \in MaxSizes
    /\ av_pc = "start"
    /\ av_average = 0
    /\ DriverIdle
    /\ PrunerIdle
    /\ ProcessIdle
    /\ tracker = TrackerDefault
    /\ StdinIdle
    /\ MainIdle
    /\ ExtentsIdle
    /\ ChunksIdle
    /\ WalkIdle
    /\ ChunkFileIdle
    /\ GroupIdle

\* assert!(max_size >= config.min_size) when max_size is given
AssertSizes ==
    /\ av_pc = "start"
    /\ av_pc' = IF av_max # <<>> /\ ~(av_max[1] >= av_min) THEN "panic" ELSE "checked"
    /\ UNCHANGED <<av_min, av_max, av_average, outside_average>>

\* config.max_size.unwrap_or(DEFAULT_MAX_CHUNK_SIZE)
unwrap_or(option, default) == IF option = <<>> THEN default ELSE option[1]

\* Ord::clamp
clamp(v, lo, hi) == IF v < lo THEN lo ELSE IF v > hi THEN hi ELSE v

\* `min + max` of two u32 does not fit a u32: half the sum is 2^31 or more
overflows_u32(a, b) == (a \div 2) + (b \div 2) + (((a % 2) + (b % 2)) \div 2) > I32_MAX

\* the average that is always between the sizes
average_Midpoint(min, max) == clamp((min + max) \div 2, AVERAGE_MIN, AVERAGE_MAX)

\* the local `average`
average(min, max) ==
    IF min <= DEFAULT_AVG_CHUNK_SIZE /\ DEFAULT_AVG_CHUNK_SIZE <= max
    THEN DEFAULT_AVG_CHUNK_SIZE
    ELSE clamp((min + max) \div 2, AVERAGE_MIN, AVERAGE_MAX)

\* the choice of min, max and average for the chunker of a task
ChooseAverage ==
    /\ av_pc = "checked"
    /\ LET min == av_min
           max == unwrap_or(av_max, DEFAULT_MAX_CHUNK_SIZE)
           adds == ~(min <= DEFAULT_AVG_CHUNK_SIZE /\ DEFAULT_AVG_CHUNK_SIZE <= max)
       IN  IF adds /\ overflows_u32(min, max)
           THEN /\ av_pc' \in {"panic", "wrapped"}
                /\ UNCHANGED av_average
           ELSE /\ av_average' = average(min, max)
                /\ av_pc' = "computed"
    /\ UNCHANGED <<av_min, av_max, outside_average>>

AverageNext ==
    \/ AssertSizes
    \/ ChooseAverage

SpecAverage == InitAverage /\ [][AverageNext]_vars

\* the maximum chunk size in force
EffectiveMax == IF av_max = <<>> THEN MAXIMUM_MAX ELSE av_max[1]

\* C28: for every accepted configuration (min_size in fastcdc's MINIMUM
\* range, max_size absent or in fastcdc's MAXIMUM range with
\* max_size >= min_size) the average chunk size is 128 KiB when
\* min <= 128 KiB <= max and otherwise
\* clamp((min + max) / 2, AVERAGE_MIN, AVERAGE_MAX); in both cases
\* min <= average <= max, and min + max does not overflow u32.
C28_AverageChunkSize ==
    LET accepted == /\ MINIMUM_MIN <= av_min /\ av_min <= MINIMUM_MAX
                    /\ MAXIMUM_MIN <= EffectiveMax /\ EffectiveMax <= MAXIMUM_MAX
                    /\ av_min <= EffectiveMax
    IN  (accepted /\ av_pc \notin {"start", "checked", "idle"}) =>
            /\ av_pc = "computed"
            /\ IF av_min <= 131072 /\ 131072 <= EffectiveMax
               THEN av_average = 131072
               ELSE \/ /\ (av_min + EffectiveMax) \div 2 < AVERAGE_MIN
                       /\ av_average = AVERAGE_MIN
                    \/ /\ (av_min + EffectiveMax) \div 2 > AVERAGE_MAX
                       /\ av_average = AVERAGE_MAX
                    \/ /\ (av_min + EffectiveMax) \div 2 >= AVERAGE_MIN
                       /\ (av_min + EffectiveMax) \div 2 <= AVERAGE_MAX
                       /\ av_average = (av_min + EffectiveMax) \div 2
            /\ av_min <= av_average
            /\ av_average <= EffectiveMax
            /\ (av_min \div 2) + (EffectiveMax \div 2) + 1 <= I32_MAX

\* 128 KiB is below the sizes and half their sum is above AVERAGE_MAX: the
\* average is clamped
C28_Witness ==
    /\ av_pc = "computed"
    /\ av_min > 131072
    /\ (av_min + EffectiveMax) \div 2 > AVERAGE_MAX
    /\ av_average = AVERAGE_MAX

(***************************************************************************)
(* Part 10: chunk_file (src/src/diskblade.rs).  Lengths are counted in a   *)
(* unit; the chunker's chunks follow each other from offset 0.             *)
(***************************************************************************)
\* most chunks the chunker cuts a file into
MaxCut == 3

\* the argument `min` in the model's unit
MinChunk == 2

\* the lengths of the chunker's chunks: below, at and above min
CutLengths == {MinChunk - 1, MinChunk, MinChunk + 1}

\* what the chunker yields: the lengths of its chunks and then, if it fails,
\* an error
ChunkerStreams ==
    [lengths : UNION {[1..n -> CutLengths] : n \in 0..MaxCut}, fails : BOOLEAN]

\* fastcdc ChunkData { hash, offset, length } of the i-th chunk
RECURSIVE OffsetOf(_, _)
OffsetOf(lengths, i) == IF i = 1 THEN 0 ELSE OffsetOf(lengths, i - 1) + lengths[i - 1]

ChunkData(lengths, i) ==
    [hash |-> 100 + OffsetOf(lengths, i), offset |-> OffsetOf(lengths, i),
     length |-> lengths[i]]

InitChunkFile ==
    /\ cf_min = MinChunk
    /\ cf_stream \in ChunkerStreams
    /\ cf_pos = 1
    /\ cf_chunks = <<>>
    /\ cf_chunker \in BOOLEAN
    /\ cf_pc = "open"
    /\ DriverIdle
    /\ PrunerIdle
    /\ ProcessIdle
    /\ tracker = TrackerDefault
    /\ StdinIdle
    /\ MainIdle
    /\ ExtentsIdle
    /\ ChunksIdle
    /\ WalkIdle
    /\ AverageIdle
    /\ GroupIdle

\* File::open, then chunker.take().expect("chunker should exist")
OpenAndTake ==
    /\ cf_pc = "open"
    /\ \E opened \in BOOLEAN :
           IF ~opened
           THEN /\ cf_pc' = "err"
                /\ UNCHANGED cf_chunker
           ELSE IF ~cf_chunker
           THEN /\ cf_pc' = "panic"
                /\ UNCHANGED cf_chunker
           ELSE /\ cf_pc' = "iter"
                /\ cf_chunker' = FALSE
    /\ UNCHANGED <<cf_min, cf_stream, cf_pos, cf_chunks, outside_chunk_file>>

\* the test that drops a chunk of exactly min too
is_skipped_AtMin(length, min) == length <= min

\* `chunk.length < min as usize`
is_skipped(length, min) == length < min

\* one turn of `while let Some(chunk) = iter.next().await` with an Ok chunk
IterChunk ==
    /\ cf_pc = "iter"
    /\ cf_pos <= Len(cf_stream.lengths)
    /\ LET chunk == ChunkData(cf_stream.lengths, cf_pos)
       IN  cf_chunks' = IF is_skipped(chunk.length, cf_min)
                        THEN cf_chunks
                        ELSE Append(cf_chunks, [hash |-> chunk.hash, offset |-> chunk.offset,
                                                length |-> chunk.length])
    /\ cf_pos' = cf_pos + 1
    /\ UNCHANGED <<cf_min, cf_stream, cf_chunker, cf_pc, outside_chunk_file>>

\* the chunker yields Err: `?` returns it and the chunker is not put back
IterError ==
    /\ cf_pc = "iter"
    /\ cf_pos > Len(cf_stream.lengths)
    /\ cf_stream.fails
    /\ cf_pc' = "err"
    /\ UNCHANGED <<cf_min, cf_stream, cf_pos, cf_chunks, cf_chunker, outside_chunk_file>>

\* the stream ends: the chunker is put back and Ok(chunks) returned
ReturnChunks ==
    /\ cf_pc = "iter"
    /\ cf_pos > Len(cf_stream.lengths)
    /\ ~cf_stream.fails
    /\ cf_chunker' = TRUE
    /\ cf_pc' = "returned"
    /\ UNCHANGED <<cf_min, cf_stream, cf_pos, cf_chunks, outside_chunk_file>>

ChunkFileNext ==
    \/ OpenAndTake
    \/ IterChunk
    \/ IterError
    \/ ReturnChunks

SpecChunkFile == InitChunkFile /\ [][ChunkFileNext]_vars

\* the chunker's chunks of length >= min, in order
RECURSIVE LongChunks(_, _)
LongChunks(lengths, i) ==
    IF i > Len(lengths) THEN <<>>
    ELSE (IF lengths[i] >= cf_min THEN <<ChunkData(lengths, i)>> ELSE <<>>)
             \o LongChunks(lengths, i + 1)

\* the size of the file: the chunker's chunks tile it
FileSize == OffsetOf(cf_stream.lengths, Len(cf_stream.lengths) + 1)

\* the sum of the lengths of the returned chunks
RECURSIVE ReturnedBytes(_)
ReturnedBytes(chunks) ==
    IF chunks = <<>> THEN 0 ELSE Head(chunks).length + ReturnedBytes(Tail(chunks))

\* where the returned chunks end in the file
CoveredEnd ==
    IF cf_chunks = <<>> THEN 0
    ELSE cf_chunks[Len(cf_chunks)].offset + cf_chunks[Len(cf_chunks)].length

\* only the final chunk of the chunker can be shorter than min
OnlyFinalShort ==
    \A i \in 1..(Len(cf_stream.lengths) - 1) : cf_stream.lengths[i] >= cf_min

\* C29: chunk_file returns exactly the chunker's chunks whose length is
\* >= min, in order and with their offsets unchanged; given that the chunks
\* tile the file and only the final one can be shorter than min, the sum of
\* the returned lengths is <= the file size and the uncovered tail of the
\* file is shorter than min_size.
C29_KeepsLongChunks ==
    cf_pc = "returned" =>
        /\ cf_chunks = LongChunks(cf_stream.lengths, 1)
        /\ OnlyFinalShort =>
               /\ ReturnedBytes(cf_chunks) <= FileSize
               /\ FileSize - CoveredEnd < cf_min

\* three chunks, the last one short and dropped, one of exactly min kept
C29_Witness ==
    /\ cf_pc = "returned"
    /\ Len(cf_stream.lengths) = 3
    /\ cf_stream.lengths[1] = cf_min
    /\ cf_stream.lengths[3] < cf_min
    /\ Len(cf_chunks) = 2
    /\ cf_chunks[2].offset = cf_stream.lengths[1]

(***************************************************************************)
(* The frame of create_target.                                             *)
(***************************************************************************)
\* every chunk index some bucket holds
Indexed(buckets) == UNION {buckets[k] : k \in DOMAIN buckets}

\* the chunk indices a target covers in its paths other than the scanned
\* one: `count` chunks from the start chunk on, inside the path's own range
CoveredInOthers(t) ==
    UNION {{c \in cm_ranges[p].start..(cm_ranges[p].end - 1) :
               t.starts[p] <= c /\ c < t.starts[p] + t.count} :
           p \in DOMAIN t.starts \ {t.path}}

\* a step that emits a target removes from the buckets the indices the
\* target covers in its other paths, nothing else, and leaves no empty bucket
EmitRemovesTheRun ==
    Len(cm_groups') > Len(cm_groups) =>
        LET t    == cm_groups'[Len(cm_groups')]
            gone == Indexed(cm_buckets) \ Indexed(cm_buckets')
        IN  /\ gone = CoveredInOthers(t) \cap Indexed(cm_buckets)
            /\ \A c \in gone : PathOfChunk(c) \in DOMAIN t.starts \ {t.path}
            /\ Indexed(cm_buckets') \subseteq Indexed(cm_buckets)
            /\ \A k \in DOMAIN cm_buckets' : cm_buckets'[k] # {}

\* C31: emitting a run while scanning path P removes from the (hash, length)
\* multimap exactly the chunk indices the run covers in the paths of the run
\* other than P, evicting buckets that become empty; no chunk index of P and
\* no chunk index of a path that is not part of the run is removed.
C31_RemovesOnlyTheRun == [][EmitRemovesTheRun]_vars

\* C33: for every run emitted and every path p in it, start_chunk(p) + L
\* does not exceed the end of p's chunk-index range: create_target never
\* reads or removes a chunk index of another path, never indexes past the
\* end of chunk_data (no panic), and the emitted offset + length of p does
\* not extend past p's last chunk; the scanned path is always a key of the
\* working set.
C33_RunsStayInsideTheirPath ==
    /\ cm_pc # "panic"
    /\ \A g \in DOMAIN cm_groups :
           LET t == cm_groups[g]
           IN  /\ t.path \in DOMAIN t.starts
               /\ \A p \in DOMAIN t.starts :
                      /\ RunInside(p, t.starts[p], t.count)
                      /\ cm_chunk_data[t.starts[p]].offset + t.length
                             <= cm_chunk_data[cm_ranges[p].end - 1].offset
                                    + cm_chunk_data[cm_ranges[p].end - 1].length
    /\ (cm_pc = "scan" /\ DOMAIN cm_start_chunks # {}) =>
           cm_index \in DOMAIN cm_start_chunks

(***************************************************************************)
(* The destination descriptors of dedupe_files.                            *)
(***************************************************************************)
\* the descriptors open in the process beyond those it had when
\* dedupe_files was called (stdin, stdout, stderr and src)
DestinationFds == fd_table \ (0..3)

\* C32: in dedupe_files, destination descriptors are opened per batch and
\* closed before the next batch is opened: at any moment one call holds at
\* most 100 open destination descriptors, none is retained across batches or
\* windows, and none remains open when the call returns, with Ok or with Err.
C32_DescriptorsLivePerBatch ==
    /\ Cardinality(DestinationFds) <= 100
    /\ DestinationFds = Range(open_fds)
    /\ pc # "ioctl" => DestinationFds = {}
    /\ pc = "ioctl" => Cardinality(DestinationFds) <= Len(req_chunk(batch))

\* the second batch of a window is open with its 100 descriptors after the
\* first batch of 100 was closed
C32_Witness ==
    /\ pc = "ioctl"
    /\ batch = 2
    /\ Len(ioctls) >= 1
    /\ Cardinality(DestinationFds) = 100

(***************************************************************************)
(* Part 11: group_files (src/src/diskblade.rs:100-219)                     *)
(*                                                                         *)
(* One walking task sends every directory entry into the bounded walk      *)
(* channel; `threads` chunking tasks receive entries, run process_entry    *)
(* and send each (path, chunks) pair into the bounded chunk channel; the   *)
(* caller drains the chunk channel into the chunk manager, then awaits     *)
(* the walking task and the chunking tasks.  group_files keeps its own     *)
(* walk_recv until it returns, so a send into the walk channel never       *)
(* fails: it waits while the channel is full.                              *)
(***************************************************************************)

\* stands for flume::bounded(10_000), the capacity of both channels
ChannelCapacity == 2

\* what process_entry makes of an entry:
\*   "file"     an eligible file that is chunked: Ok(Some((path, chunks)))
\*   "skipped"  not a file, too small, read-only or an inode seen: Ok(None)
\*   "err"      a walk, metadata or open error: Err before chunker.take()
\*   "read_err" a chunk of the file fails to read: Err after chunker.take()
EntryKinds == {"file", "skipped", "err", "read_err"}

\* the walks: more entries than the walk channel holds are included
EntryLists == UNION {[1..n -> EntryKinds] : n \in 1..MaxEntries}

\* a chunking task as spawned: about to receive, its chunker is Some
SpawnedTask == [pc |-> "recv", entry |-> 0, chunker |-> TRUE]

InitGroupFiles ==
    /\ DriverIdle
    /\ PrunerIdle
    /\ ProcessIdle
    /\ tracker = TrackerDefault
    /\ StdinIdle
    /\ MainIdle
    /\ ExtentsIdle
    /\ ChunksIdle
    /\ WalkIdle
    /\ AverageIdle
    /\ ChunkFileIdle
    /\ gf_entries \in EntryLists
    /\ gf_walked = 0
    /\ gf_walker = "walking"
    /\ gf_walk_chan = <<>>
    /\ \E threads \in 0..MaxThreads : gf_worker = [w \in 1..threads |-> SpawnedTask]
    /\ gf_chunk_chan = <<>>
    /\ gf_pushed = <<>>
    /\ gf_pc = "loop"

\* walk_send.send_async(entry).await: completes when the channel has room
walking_task_send ==
    /\ gf_walker = "walking"
    /\ gf_walked < Len(gf_entries)
    /\ Len(gf_walk_chan) < ChannelCapacity
    /\ gf_walked' = gf_walked + 1
    /\ gf_walk_chan' = Append(gf_walk_chan, gf_walked + 1)
    /\ UNCHANGED <<gf_entries, gf_walker, gf_worker, gf_chunk_chan, gf_pushed, gf_pc>>
    /\ UNCHANGED outside_group

\* walker.next() is None: the task ends and walk_send is dropped
walking_task_finish ==
    /\ gf_walker = "walking"
    /\ gf_walked = Len(gf_entries)
    /\ gf_walker' = "done"
    /\ UNCHANGED <<gf_entries, gf_walked, gf_walk_chan, gf_worker, gf_chunk_chan, gf_pushed,
                   gf_pc>>
    /\ UNCHANGED outside_group

\* process_entry and the match on its result, for a task with the given chunker:
\* chunk_file takes the chunker and puts it back only after the last chunk
process_entry(spawned, kind, e) ==
    CASE kind \in {"skipped", "err"} -> spawned
      [] ~spawned.chunker            -> [spawned EXCEPT !.pc = "panic"]
      [] kind = "read_err"           -> [spawned EXCEPT !.chunker = FALSE]
      [] OTHER                       -> [spawned EXCEPT !.pc = "send", !.entry = e]

\* walk_recv.recv_async().await is Ok(entry), then process_entry
chunking_task_recv(w) ==
    /\ gf_worker[w].pc = "recv"
    /\ gf_walk_chan # <<>>
    /\ LET e == Head(gf_walk_chan)
       IN  gf_worker' = [gf_worker EXCEPT ![w] = process_entry(@, gf_entries[e], e)]
    /\ gf_walk_chan' = Tail(gf_walk_chan)
    /\ UNCHANGED <<gf_entries, gf_walked, gf_walker, gf_chunk_chan, gf_pushed, gf_pc>>
    /\ UNCHANGED outside_group

\* chunk_send.send_async(data).await: completes when the channel has room
chunking_task_send(w) ==
    /\ gf_worker[w].pc = "send"
    /\ Len(gf_chunk_chan) < ChannelCapacity
    /\ gf_chunk_chan' = Append(gf_chunk_chan, gf_worker[w].entry)
    /\ gf_worker' = [gf_worker EXCEPT ![w] = [@ EXCEPT !.pc = "recv", !.entry = 0]]
    /\ UNCHANGED <<gf_entries, gf_walked, gf_walker, gf_walk_chan, gf_pushed, gf_pc>>
    /\ UNCHANGED outside_group

\* recv_async() is Err: the channel is empty and its only sender is dropped
chunking_task_finish(w) ==
    /\ gf_worker[w].pc = "recv"
    /\ gf_walk_chan = <<>>
    /\ gf_walker = "done"
    /\ gf_worker' = [gf_worker EXCEPT ![w] = [@ EXCEPT !.pc = "exited"]]
    /\ UNCHANGED <<gf_entries, gf_walked, gf_walker, gf_walk_chan, gf_chunk_chan, gf_pushed,
                   gf_pc>>
    /\ UNCHANGED outside_group

\* the tasks that no longer hold a chunk_send
SendersDropped == \A w \in DOMAIN gf_worker : gf_worker[w].pc \in {"exited", "panic"}

\* the stream yields a pair: chunk_manager.push_path(path, chunks)
manager_push_path ==
    /\ gf_pc = "loop"
    /\ gf_chunk_chan # <<>>
    /\ gf_pushed' = Append(gf_pushed, Head(gf_chunk_chan))
    /\ gf_chunk_chan' = Tail(gf_chunk_chan)
    /\ UNCHANGED <<gf_entries, gf_walked, gf_walker, gf_walk_chan, gf_worker, gf_pc>>
    /\ UNCHANGED outside_group

\* the stream ends: the channel is empty and every chunk_send is dropped
manager_loop_end ==
    /\ gf_pc = "loop"
    /\ gf_chunk_chan = <<>>
    /\ SendersDropped
    /\ gf_pc' = "await_walk"
    /\ UNCHANGED <<gf_entries, gf_walked, gf_walker, gf_walk_chan, gf_worker, gf_chunk_chan,
                   gf_pushed>>
    /\ UNCHANGED outside_group

\* walking_task.await completes when the walking task has ended
await_walking_task ==
    /\ gf_pc = "await_walk"
    /\ gf_walker = "done"
    /\ gf_pc' = "await_tasks"
    /\ UNCHANGED <<gf_entries, gf_walked, gf_walker, gf_walk_chan, gf_worker, gf_chunk_chan,
                   gf_pushed>>
    /\ UNCHANGED outside_group

\* task.await.expect(..) for each chunking task: a task that panicked is fatal
await_chunking_tasks ==
    /\ gf_pc = "await_tasks"
    /\ gf_pc' = IF \E w \in DOMAIN gf_worker : gf_worker[w].pc = "panic"
                THEN "panic" ELSE "returned"
    /\ UNCHANGED <<gf_entries, gf_walked, gf_walker, gf_walk_chan, gf_worker, gf_chunk_chan,
                   gf_pushed>>
    /\ UNCHANGED outside_group

GroupFilesNext ==
    \/ walking_task_send
    \/ walking_task_finish
    \/ \E w \in DOMAIN gf_worker : chunking_task_recv(w)
    \/ \E w \in DOMAIN gf_worker : chunking_task_send(w)
    \/ \E w \in DOMAIN gf_worker : chunking_task_finish(w)
    \/ manager_push_path
    \/ manager_loop_end
    \/ await_walking_task
    \/ await_chunking_tasks

SpecGroupFiles == InitGroupFiles /\ [][GroupFilesNext]_vars

\* the entries of a kind
EntriesOf(kind) == {e \in DOMAIN gf_entries : gf_entries[e] = kind}

\* C34: group_files terminates for every thread count and every number of
\* entries: while it has not returned some task can take a step; no task
\* panics, so an error on one entry only skips that entry; every pair is pushed
\* once, only eligible files are pushed, and when group_files returns with at
\* least one chunking task every eligible file has been pushed.
C34_TerminatesSkippingErrors ==
    gf_pc # "idle" =>
        /\ gf_pc = "returned" \/ ENABLED GroupFilesNext
        /\ gf_pc # "panic"
        /\ \A w \in DOMAIN gf_worker : gf_worker[w].pc # "panic"
        /\ \A i, j \in DOMAIN gf_pushed : gf_pushed[i] = gf_pushed[j] => i = j
        /\ Range(gf_pushed) \subseteq EntriesOf("file")
        /\ (gf_pc = "returned" /\ gf_worker # <<>>) => Range(gf_pushed) = EntriesOf("file")

====
